---- MODULE Spec2Model ----
(***************************************************************************)
(* The WebSocket core of haru: the frame codec (websocket/frames.py), the  *)
(* per-connection protocol state machine (websocket/protocol.py) and the   *)
(* connection handler that drives it (websocket/server.py).                *)
(*                                                                         *)
(* Bytes are sequences of integers 0..255.  A Python str is a sequence of  *)
(* code points; the two are told apart in the message queue by a tag.      *)
(* A method of WebSocketProtocol is an operator from the protocol record   *)
(* (and the call's arguments) to a result [p, exc]: the protocol as the    *)
(* call leaves it and the exception that leaves the call (NoExc when it    *)
(* returns).  Effects made before a raise stay in p, as in the code.       *)
(***************************************************************************)
EXTENDS Integers, Sequences, FiniteSets, TLC

\* ------------------------------------------------------------------ bounds

\* max_size given to WebSocketProtocol (protocol.py:128 defaults it to 2**20)
MaxSize == 3
\* calls made on one protocol object in a behaviour of Spec
MaxSteps == 3
\* chunks the peer delivers to the reader thread of a handler
MaxChunks == 2
\* calls of send the user handler makes
MaxUserCalls == 1
\* clients that connect to one server, and calls of shutdown the application
\* makes
MaxClients == 3
MaxShutdowns == 2
\* calls of broadcast the application makes
MaxBroadcasts == 1
\* the configured maximum of concurrent connections, MAX_CONNECTIONS, scaled
\* down so that MaxClients exceeds it
MaxConnections == 2

\* ------------------------------------------------------------ enumerations

\* protocol.py State(enum.IntEnum)
CONNECTING == 0
OPEN == 1
CLOSING == 2
CLOSED == 3
States == {CONNECTING, OPEN, CLOSING, CLOSED}

\* frames.py Opcode(enum.IntEnum)
CONTINUATION == 0
TEXT == 1
BINARY == 2
CLOSE == 8
PING == 9
PONG == 10
Opcodes == {CONTINUATION, TEXT, BINARY, CLOSE, PING, PONG}
CONTROL_FRAMES == {CLOSE, PING, PONG}
DATA_FRAMES == {CONTINUATION, TEXT, BINARY}

\* frames.py CloseCode
NORMAL == 1000
GOING_AWAY == 1001
PROTOCOL_ERROR == 1002
INTERNAL_ERROR == 1011

\* Python's None where an int is expected, and where a str or bytes is
NoneInt == -1
NoneStr == <<-1>>

\* -------------------------------------------------------------- exceptions

\* An exception: its class, the str() of it, and the code and reason attributes
\* a ConnectionError carries.  The message text is abbreviated to its first
\* letter: every message the code raises is ASCII and far shorter than the 123
\* bytes encode_close_payload allows, which is all the code reads of it.
NoExc == [type |-> "none", msg |-> <<>>, code |-> NoneInt, reason |-> NoneStr]
ExcMsg(type, msg) == [type |-> type, msg |-> msg, code |-> NoneInt, reason |-> NoneStr]
Exc(type) == ExcMsg(type, <<>>)
str(exc) == exc.msg
R(p, exc) == [p |-> p, exc |-> exc]

\* exceptions.py: ConnectionError.__init__(self, message, *, code=None,
\* reason=None) takes one positional argument; code and reason are keyword
\* only.  ConnectionClosed inherits it.  posargs: the positional arguments of
\* the call; kw: the keyword arguments given.
ConnectionClosed(posargs, kw) ==
    IF Len(posargs) # 1
    THEN Exc("TypeError")
    ELSE [type |-> "ConnectionClosed", msg |-> <<>>,
          code |-> kw.code, reason |-> kw.reason]

\* ------------------------------------------------------------------- bytes

RECURSIVE BitXor(_, _)
BitXor(a, b) ==
    IF a = 0 THEN b
    ELSE IF b = 0 THEN a
    ELSE ((a + b) % 2) + 2 * BitXor(a \div 2, b \div 2)

RECURSIVE BitAnd(_, _)
BitAnd(a, b) ==
    IF a = 0 \/ b = 0 THEN 0
    ELSE ((a % 2) * (b % 2)) + 2 * BitAnd(a \div 2, b \div 2)

\* struct.pack("!H", n), struct.pack("!Q", n), struct.pack("!I", n)
RECURSIVE PackBE(_, _)
PackBE(n, width) ==
    IF width = 0 THEN <<>>
    ELSE Append(PackBE(n \div 256, width - 1), n % 256)

\* struct.unpack("!H" | "!Q" | "!I", bytes)[0]
RECURSIVE UnpackBE(_)
UnpackBE(bs) ==
    IF bs = <<>> THEN 0
    ELSE 256 * UnpackBE(SubSeq(bs, 1, Len(bs) - 1)) + bs[Len(bs)]

\* data[a:b] of Python, 0-based and end-exclusive, clipped to the data
Slice(data, a, b) ==
    SubSeq(data, a + 1, IF b > Len(data) THEN Len(data) ELSE b)

RECURSIVE Join(_)
Join(parts) ==
    IF parts = <<>> THEN <<>> ELSE Head(parts) \o Join(Tail(parts))

\* utils.py apply_mask: byte-wise under 128 bytes, else 4-byte words XORed
\* with the mask as one big-endian integer and the remainder byte-wise.
apply_mask(data, mask) ==
    LET n == Len(data)
        bytewise(i) == BitXor(data[i], mask[((i - 1) % 4) + 1])
    IN  IF n < 128
        THEN [i \in 1..n |-> bytewise(i)]
        ELSE LET mask_int == UnpackBE(mask)
                 whole == n - (n % 4)
                 word(k) == PackBE(BitXor(UnpackBE(SubSeq(data, 4 * k + 1, 4 * k + 4)),
                                          mask_int), 4)
             IN  [i \in 1..n |->
                    IF i <= whole
                    THEN word((i - 1) \div 4)[((i - 1) % 4) + 1]
                    ELSE bytewise(i)]

\* ---------------------------------------------------- str <-> bytes (UTF-8)

Str(cps) == [t |-> "str", v |-> cps]
Bytes(bs) == [t |-> "bytes", v |-> bs]
\* the outcome of a decode that raises UnicodeDecodeError
Invalid == <<-1>>

IsCont(b) == b >= 128 /\ b <= 191

\* the length of the UTF-8 sequence a lead byte opens, 0 for no lead byte
Utf8Width(b1) ==
    IF b1 < 128 THEN 1
    ELSE IF b1 >= 194 /\ b1 <= 223 THEN 2
    ELSE IF b1 >= 224 /\ b1 <= 239 THEN 3
    ELSE IF b1 >= 240 /\ b1 <= 244 THEN 4
    ELSE 0

Utf8CodePoint(bs, n) ==
    CASE n = 1 -> bs[1]
      [] n = 2 -> (bs[1] - 192) * 64 + (bs[2] - 128)
      [] n = 3 -> (bs[1] - 224) * 4096 + (bs[2] - 128) * 64 + (bs[3] - 128)
      [] n = 4 -> (bs[1] - 240) * 262144 + (bs[2] - 128) * 4096
                  + (bs[3] - 128) * 64 + (bs[4] - 128)

\* neither overlong nor a surrogate nor past U+10FFFF
Utf8Scalar(cp, n) ==
    CASE n = 1 -> TRUE
      [] n = 2 -> TRUE
      [] n = 3 -> cp >= 2048 /\ ~(cp >= 55296 /\ cp <= 57343)
      [] n = 4 -> cp >= 65536 /\ cp <= 1114111

Utf8Cons(cp, n, rest) ==
    IF ~Utf8Scalar(cp, n) \/ rest = Invalid THEN Invalid ELSE <<cp>> \o rest

\* bytes.decode("utf-8"): the code points, or Invalid
RECURSIVE Utf8Decode(_)
Utf8Step(bs, n) ==
    IF n = 0 \/ Len(bs) < n THEN Invalid
    ELSE IF \E i \in 2..n : ~IsCont(bs[i]) THEN Invalid
    ELSE Utf8Cons(Utf8CodePoint(bs, n), n, Utf8Decode(SubSeq(bs, n + 1, Len(bs))))
Utf8Decode(bs) ==
    IF bs = <<>> THEN <<>> ELSE Utf8Step(bs, Utf8Width(bs[1]))

Utf8EncodeOne(c) ==
    IF c < 128 THEN <<c>>
    ELSE IF c < 2048 THEN <<192 + (c \div 64), 128 + (c % 64)>>
    ELSE IF c < 65536
    THEN <<224 + (c \div 4096), 128 + ((c \div 64) % 64), 128 + (c % 64)>>
    ELSE <<240 + (c \div 262144), 128 + ((c \div 4096) % 64),
           128 + ((c \div 64) % 64), 128 + (c % 64)>>

\* str.encode("utf-8") of a str without surrogates
RECURSIVE Utf8Encode(_)
Utf8Encode(cps) ==
    IF cps = <<>> THEN <<>> ELSE Utf8EncodeOne(cps[1]) \o Utf8Encode(Tail(cps))

\* ------------------------------------------------------------------ frames

\* Frame._validate: the FrameError it raises, or NoExc
Frame_validate(fin, opcode, payload, rsv1, rsv2, rsv3) ==
    IF opcode \notin Opcodes THEN Exc("FrameError")
    ELSE IF opcode \in CONTROL_FRAMES /\ ~fin THEN Exc("FrameError")
    ELSE IF opcode \in CONTROL_FRAMES /\ Len(payload) > 125 THEN Exc("FrameError")
    ELSE IF rsv1 \/ rsv2 \/ rsv3 THEN Exc("FrameError")
    ELSE NoExc

\* Frame(fin, opcode, payload) with the reserved bits at their default
Frame(fin, opcode, payload) ==
    [fin |-> fin, opcode |-> opcode, payload |-> payload,
     rsv1 |-> FALSE, rsv2 |-> FALSE, rsv3 |-> FALSE]

NoFrame == [fin |-> FALSE, opcode |-> -1, payload |-> <<>>,
            rsv1 |-> FALSE, rsv2 |-> FALSE, rsv3 |-> FALSE]

\* Frame.__init__, lines 107-113: Opcode(opcode) raises ValueError for a
\* number that is no member of the enumeration, then _validate runs
Frame_init(fin, opcode, payload, rsv1, rsv2, rsv3) ==
    IF opcode \notin Opcodes
    THEN [exc |-> Exc("ValueError"), frame |-> NoFrame]
    ELSE IF Frame_validate(fin, opcode, payload, rsv1, rsv2, rsv3) # NoExc
    THEN [exc |-> Frame_validate(fin, opcode, payload, rsv1, rsv2, rsv3),
          frame |-> NoFrame]
    ELSE [exc |-> NoExc,
          frame |-> [fin |-> fin, opcode |-> opcode, payload |-> payload,
                     rsv1 |-> rsv1, rsv2 |-> rsv2, rsv3 |-> rsv3]]

\* serialize, lines 149-155: the 7-bit length field
Len7(payload_length) ==
    IF payload_length <= 125 THEN payload_length
    ELSE IF payload_length <= 65535 THEN 126 ELSE 127

\* serialize, lines 162-167: the extended payload length
ExtendedLength(payload_length) ==
    IF payload_length <= 125 THEN <<>>
    ELSE IF payload_length <= 65535 THEN PackBE(payload_length, 2)
    ELSE PackBE(payload_length, 8)

\* a variant that masks the payload and leaves the mask bit clear
serialize_mask_bit_clear(frame, mask, mask_key) ==
    <<(IF frame.fin THEN 128 ELSE 0) + frame.opcode, Len7(Len(frame.payload))>>
    \o ExtendedLength(Len(frame.payload))
    \o (IF mask THEN mask_key \o apply_mask(frame.payload, mask_key)
        ELSE frame.payload)

\* Frame.serialize(mask=...): mask_key stands for os.urandom(4)
serialize(frame, mask, mask_key) ==
    <<(IF frame.fin THEN 128 ELSE 0) + (IF frame.rsv1 THEN 64 ELSE 0)
        + (IF frame.rsv2 THEN 32 ELSE 0) + (IF frame.rsv3 THEN 16 ELSE 0)
        + frame.opcode,
      Len7(Len(frame.payload)) + (IF mask THEN 128 ELSE 0)>>
    \o ExtendedLength(Len(frame.payload))
    \o (IF mask THEN mask_key \o apply_mask(frame.payload, mask_key)
        ELSE frame.payload)

ParseError(type) == [exc |-> Exc(type), frame |-> NoFrame, consumed |-> 0]

\* parse_frame, lines 264-273: Frame(...) validates, then the frame is returned
parse_build(bad, fin, opcode, payload, rsv1, rsv2, rsv3, consumed) ==
    IF bad # NoExc
    THEN [exc |-> bad, frame |-> NoFrame, consumed |-> 0]
    ELSE [exc |-> NoExc,
          frame |-> [fin |-> fin, opcode |-> opcode, payload |-> payload,
                     rsv1 |-> rsv1, rsv2 |-> rsv2, rsv3 |-> rsv3],
          consumed |-> consumed]

parse_validate(fin, opcode, payload, rsv1, rsv2, rsv3, consumed) ==
    parse_build(Frame_validate(fin, opcode, payload, rsv1, rsv2, rsv3),
                fin, opcode, payload, rsv1, rsv2, rsv3, consumed)

\* a variant that checks the size once the whole frame has arrived
parse_payload_size_last(data, max_size, first_byte, masked, pos1, pos, payload_length) ==
    IF masked /\ Len(data) < pos1 + 4 THEN ParseError("FrameError")
    ELSE IF Len(data) < pos + payload_length THEN ParseError("FrameError")
    ELSE ParseError("PayloadError")

\* parse_frame, lines 244-262: the size check, the mask key, the payload;
\* pos1 is the position after the length, pos the position of the payload
parse_payload(data, max_size, first_byte, masked, pos1, pos, payload_length) ==
    IF max_size # NoneInt /\ payload_length > max_size
    THEN ParseError("PayloadError")
    ELSE IF masked /\ Len(data) < pos1 + 4 THEN ParseError("FrameError")
    ELSE IF Len(data) < pos + payload_length THEN ParseError("FrameError")
    ELSE parse_validate(
            BitAnd(first_byte, 128) # 0,
            BitAnd(first_byte, 15),
            IF masked
            THEN apply_mask(Slice(data, pos, pos + payload_length),
                            Slice(data, pos1, pos1 + 4))
            ELSE Slice(data, pos, pos + payload_length),
            BitAnd(first_byte, 64) # 0,
            BitAnd(first_byte, 32) # 0,
            BitAnd(first_byte, 16) # 0,
            pos + payload_length)

\* parse_frame, lines 232-242: the extended payload length, extw bytes wide
parse_length(data, max_size, first_byte, masked, len7, extw) ==
    IF Len(data) < 2 + extw THEN ParseError("FrameError")
    ELSE parse_payload(data, max_size, first_byte, masked, 2 + extw,
                       2 + extw + (IF masked THEN 4 ELSE 0),
                       IF extw = 0 THEN len7 ELSE UnpackBE(Slice(data, 2, 2 + extw)))

\* parse_frame, lines 224-230: the second byte
parse_second(data, max_size, first_byte, masked, len7) ==
    parse_length(data, max_size, first_byte, masked, len7,
                 IF len7 = 126 THEN 2 ELSE IF len7 = 127 THEN 8 ELSE 0)

\* parse_frame(data, max_size=max_size): [exc, frame, consumed]
parse_frame(data, max_size) ==
    IF Len(data) < 2 THEN ParseError("FrameError")
    ELSE IF BitAnd(data[1], 15) \notin Opcodes THEN ParseError("FrameError")
    ELSE parse_second(data, max_size, data[1],
                      BitAnd(data[2], 128) # 0, BitAnd(data[2], 127))

\* a variant without the limit on the reason
encode_reason_unchecked(code, reason_bytes) ==
    [exc |-> NoExc, payload |-> PackBE(code, 2) \o reason_bytes]

\* encode_close_payload, lines 325-328
encode_reason(code, reason_bytes) ==
    IF Len(reason_bytes) > 123
    THEN [exc |-> ExcMsg("ValueError", <<67>>), payload |-> <<>>]
    ELSE [exc |-> NoExc, payload |-> PackBE(code, 2) \o reason_bytes]

\* encode_close_payload(code, reason): [exc, payload]
encode_close_payload(code, reason) ==
    IF ~(1000 <= code /\ code <= 4999)
    THEN [exc |-> ExcMsg("ValueError", <<73>>), payload |-> <<>>]
    ELSE encode_reason(code, Utf8Encode(reason))

DecodeError(exc) == [exc |-> exc, code |-> NoneInt, reason |-> NoneStr]

decode_checked(code, reason) ==
    IF reason = Invalid THEN DecodeError(ExcMsg("UnicodeDecodeError", <<39>>))
    ELSE IF ~(1000 <= code /\ code <= 4999)
    THEN DecodeError(ExcMsg("ValueError", <<73>>))
    ELSE [exc |-> NoExc, code |-> code, reason |-> reason]

\* decode_close_payload(payload): [exc, code, reason]
decode_close_payload(payload) ==
    IF payload = <<>> THEN [exc |-> NoExc, code |-> NORMAL, reason |-> <<>>]
    ELSE IF Len(payload) < 2 THEN DecodeError(ExcMsg("ValueError", <<67>>))
    ELSE decode_checked(UnpackBE(Slice(payload, 0, 2)),
                        Utf8Decode(Slice(payload, 2, Len(payload))))

\* ---------------------------------------------------------------- protocol

\* WebSocketProtocol.__init__, with the ConnectionState it owns flattened
\* into state, close_code, close_reason.  urandom is the environment: the
\* keys that the calls of os.urandom(4) made during the current call return.
WebSocketProtocol(max_size) ==
    [max_size |-> max_size,
     state |-> CONNECTING,
     close_code |-> NoneInt,
     close_reason |-> NoneStr,
     incoming_buffer |-> <<>>,
     outgoing_queue |-> <<>>,
     message_queue |-> <<>>,
     fragmented_message_type |-> NoneInt,
     fragmented_message_buffer |-> <<>>,
     fragmented_message_size |-> 0,
     close_frame_sent |-> FALSE,
     close_frame_received |-> FALSE,
     pending_pings |-> {},
     urandom |-> <<>>]

\* a variant of the transition table that has lost the rule for CLOSING
InvalidTransitionWithoutClosingRule(current, to_state) ==
    \/ (current = CONNECTING /\ to_state \notin {OPEN, CLOSED})
    \/ (current = OPEN /\ to_state \notin {CLOSING, CLOSED})
    \/ current = CLOSED

\* ConnectionState.transition, lines 89-99: the transitions that raise
InvalidTransition(current, to_state) ==
    \/ (current = CONNECTING /\ to_state \notin {OPEN, CLOSED})
    \/ (current = OPEN /\ to_state \notin {CLOSING, CLOSED})
    \/ (current = CLOSING /\ to_state # CLOSED)
    \/ current = CLOSED

\* a transition that changes the state and records nothing
transition_unrecorded(p, to_state, code, reason) ==
    IF InvalidTransition(p.state, to_state)
    THEN R(p, ExcMsg("ValueError", <<73>>))
    ELSE R([p EXCEPT !.state = to_state], NoExc)

\* ConnectionState.transition(to_state, code, reason)
transition(p, to_state, code, reason) ==
    IF InvalidTransition(p.state, to_state)
    THEN R(p, ExcMsg("ValueError", <<73>>))
    ELSE R([p EXCEPT !.state = to_state,
                     !.close_code = IF to_state = CLOSED THEN code ELSE @,
                     !.close_reason = IF to_state = CLOSED THEN reason ELSE @],
           NoExc)

\* raise ConnectionClosed(self.state.close_code, self.state.close_reason)
RaiseConnectionClosed(p) ==
    R(p, ConnectionClosed(<<p.close_code, p.close_reason>>,
                          [code |-> NoneInt, reason |-> NoneStr]))

\* WebSocketProtocol.send_frame(frame)
send_frame(p, frame) ==
    IF p.state = CLOSED
    THEN RaiseConnectionClosed(p)
    ELSE R([p EXCEPT !.outgoing_queue =
                         Append(@, serialize(frame, TRUE, Head(p.urandom))),
                     !.urandom = Tail(@)], NoExc)

\* what get_nowait has when it raises queue.Empty
NoChunk == <<-1>>

\* a get_nowait that hands the chunk over and leaves it in the queue
get_nowait_kept(p) ==
    [p |-> p,
     chunk |-> IF p.outgoing_queue = <<>> THEN NoChunk ELSE Head(p.outgoing_queue)]

\* self._outgoing_queue.get_nowait(), line 312: [p, chunk]
get_nowait(p) ==
    IF p.outgoing_queue = <<>>
    THEN [p |-> p, chunk |-> NoChunk]
    ELSE [p |-> [p EXCEPT !.outgoing_queue = Tail(@)],
          chunk |-> Head(p.outgoing_queue)]

\* WebSocketProtocol.get_outgoing_data(): [p, data]
get_outgoing_data(p) ==
    [p |-> [p EXCEPT !.outgoing_queue = <<>>], data |-> Join(p.outgoing_queue)]

NoMessage == [t |-> "none", v |-> <<>>]

\* WebSocketProtocol.receive_message(timeout=timeout), for a call that returns
\* or raises: [p, exc, value].  With an empty queue and no timeout the call
\* blocks in Queue.get; receive_message_blocks says when.
receive_message(p) ==
    IF p.state = CLOSED
    THEN [p |-> p, exc |-> RaiseConnectionClosed(p).exc, value |-> NoMessage]
    ELSE IF p.message_queue = <<>>
    THEN [p |-> p, exc |-> Exc("Empty"), value |-> NoMessage]
    ELSE [p |-> [p EXCEPT !.message_queue = Tail(@)], exc |-> NoExc,
          value |-> Head(p.message_queue)]

receive_message_blocks(p, timeout) ==
    p.state # CLOSED /\ p.message_queue = <<>> /\ timeout = NoneInt

\* WebSocketProtocol.send_message(message)
send_message(p, message) ==
    IF message.t = "str"
    THEN send_frame(p, Frame(TRUE, TEXT, Utf8Encode(message.v)))
    ELSE IF message.t = "bytes"
    THEN send_frame(p, Frame(TRUE, BINARY, message.v))
    ELSE R(p, ExcMsg("TypeError", <<77>>))

\* WebSocketProtocol.ping(data)
ping(p, data) ==
    IF Len(data) > 125
    THEN R(p, ExcMsg("ValueError", <<80>>))
    ELSE send_frame([p EXCEPT !.pending_pings = @ \cup {data}],
                    Frame(TRUE, PING, data))

\* a variant of pong that queues nothing
pong_dropped(p, data) == R(p, NoExc)

\* WebSocketProtocol.pong(data)
pong(p, data) ==
    IF Len(data) > 125
    THEN R(p, ExcMsg("ValueError", <<80>>))
    ELSE send_frame(p, Frame(TRUE, PONG, data))

\* close, line 391: self._close_frame_sent = True, once send_frame returned
close_mark_sent(s) ==
    IF s.exc # NoExc THEN s ELSE R([s.p EXCEPT !.close_frame_sent = TRUE], NoExc)

\* close, lines 389-390: build the CLOSE frame and queue it
close_send_frame(p, enc) ==
    IF enc.exc # NoExc THEN R(p, enc.exc)
    ELSE close_mark_sent(send_frame(p, Frame(TRUE, CLOSE, enc.payload)))

\* close, lines 388-391
close_send(p, code, reason) ==
    IF p.close_frame_sent THEN R(p, NoExc)
    ELSE close_send_frame(p, encode_close_payload(code, reason))

\* close, lines 393-396
close_transition(sent, code, reason) ==
    IF sent.exc # NoExc THEN sent
    ELSE IF sent.p.close_frame_received
    THEN transition(sent.p, CLOSED, code, reason)
    ELSE transition(sent.p, CLOSING, NoneInt, <<>>)

\* WebSocketProtocol.close(code, reason)
close(p, code, reason) ==
    IF p.state = CLOSED
    THEN RaiseConnectionClosed(p)
    ELSE close_transition(close_send(p, code, reason), code, reason)

\* a variant of _handle_close that never echoes the CLOSE frame
handle_close_without_echo(p, code, reason) == R(p, NoExc)

\* _handle_close, lines 282-284
handle_close_echo(p, code, reason) ==
    IF ~p.close_frame_sent THEN close(p, code, reason) ELSE R(p, NoExc)

\* _handle_close, lines 286-288
handle_close_update(echoed, code, reason) ==
    IF echoed.exc # NoExc THEN echoed
    ELSE IF echoed.p.state # CLOSED
    THEN transition(echoed.p, CLOSED, code, reason)
    ELSE echoed

\* WebSocketProtocol._handle_close(code, reason)
_handle_close(p, code, reason) ==
    handle_close_update(
        handle_close_echo([p EXCEPT !.close_frame_received = TRUE], code, reason),
        code, reason)

\* _handle_control_frame, lines 206-210, with the payload decoded into d
handle_close_frame(p, d) ==
    IF d.exc # NoExc THEN R(p, d.exc) ELSE _handle_close(p, d.code, d.reason)

\* a variant of _handle_control_frame that answers a PING in every state
handle_control_frame_pong_always(p, frame) ==
    IF frame.opcode = CLOSE
    THEN handle_close_frame(p, IF Len(frame.payload) >= 2
                               THEN decode_close_payload(frame.payload)
                               ELSE [exc |-> NoExc, code |-> NORMAL, reason |-> <<>>])
    ELSE IF frame.opcode = PING
    THEN pong(p, frame.payload)
    ELSE IF frame.opcode = PONG
    THEN R([p EXCEPT !.pending_pings = @ \ {frame.payload}], NoExc)
    ELSE R(p, NoExc)

\* WebSocketProtocol._handle_control_frame(frame)
_handle_control_frame(p, frame) ==
    IF frame.opcode = CLOSE
    THEN handle_close_frame(p, IF Len(frame.payload) >= 2
                               THEN decode_close_payload(frame.payload)
                               ELSE [exc |-> NoExc, code |-> NORMAL, reason |-> <<>>])
    ELSE IF frame.opcode = PING
    THEN IF p.state # CLOSED THEN pong(p, frame.payload) ELSE R(p, NoExc)
    ELSE IF frame.opcode = PONG
    THEN R([p EXCEPT !.pending_pings = @ \ {frame.payload}], NoExc)
    ELSE R(p, NoExc)

\* self._message_queue.put(message)
put_message(p, message) ==
    [p EXCEPT !.message_queue = Append(@, message)]

\* a variant of the completion that leaves the fragmentation state as it is
keep_fragmentation(p) == p

\* _handle_data_frame, lines 248-250
reset_fragmentation(p) ==
    [p EXCEPT !.fragmented_message_type = NoneInt,
              !.fragmented_message_buffer = <<>>,
              !.fragmented_message_size = 0]

\* _handle_data_frame, lines 241-247 and 258-263: text is the decoded str
put_text(p, text, fragmented) ==
    IF text = Invalid THEN R(p, ExcMsg("ProtocolError", <<73>>))
    ELSE IF fragmented THEN R(reset_fragmentation(put_message(p, Str(text))), NoExc)
    ELSE R(put_message(p, Str(text)), NoExc)

\* _handle_data_frame, lines 240-250: message is the joined buffer
complete_message(p, message) ==
    IF p.fragmented_message_type = TEXT
    THEN put_text(p, Utf8Decode(message), TRUE)
    ELSE R(reset_fragmentation(put_message(p, Bytes(message))), NoExc)

\* _handle_data_frame, lines 235-250, the payload already appended
continuation_appended(p, frame) ==
    IF /\ p.max_size # NoneInt /\ p.max_size # 0
       /\ p.fragmented_message_size > p.max_size
    THEN R(p, ExcMsg("ProtocolError", <<77>>))
    ELSE IF frame.fin
    THEN complete_message(p, Join(p.fragmented_message_buffer))
    ELSE R(p, NoExc)

\* a variant of the new-message branch without the test of line 254
new_message_unchecked(p, frame) ==
    IF frame.fin
    THEN IF frame.opcode = TEXT
         THEN put_text(p, Utf8Decode(frame.payload), FALSE)
         ELSE R(put_message(p, Bytes(frame.payload)), NoExc)
    ELSE R([p EXCEPT !.fragmented_message_type = frame.opcode,
                     !.fragmented_message_buffer = <<frame.payload>>,
                     !.fragmented_message_size = Len(frame.payload)], NoExc)

\* _handle_data_frame, lines 253-271
new_message(p, frame) ==
    IF p.fragmented_message_type # NoneInt
    THEN R(p, ExcMsg("ProtocolError", <<69>>))
    ELSE IF frame.fin
    THEN IF frame.opcode = TEXT
         THEN put_text(p, Utf8Decode(frame.payload), FALSE)
         ELSE R(put_message(p, Bytes(frame.payload)), NoExc)
    ELSE R([p EXCEPT !.fragmented_message_type = frame.opcode,
                     !.fragmented_message_buffer = <<frame.payload>>,
                     !.fragmented_message_size = Len(frame.payload)], NoExc)

\* WebSocketProtocol._handle_data_frame(frame)
_handle_data_frame(p, frame) ==
    IF frame.opcode = CONTINUATION
    THEN IF p.fragmented_message_type = NoneInt
         THEN R(p, ExcMsg("ProtocolError", <<85>>))
         ELSE continuation_appended(
                [p EXCEPT !.fragmented_message_buffer = Append(@, frame.payload),
                          !.fragmented_message_size = @ + Len(frame.payload)],
                frame)
    ELSE new_message(p, frame)

\* WebSocketProtocol._handle_frame(frame)
_handle_frame(p, frame) ==
    IF frame.opcode \in CONTROL_FRAMES
    THEN _handle_control_frame(p, frame)
    ELSE _handle_data_frame(p, frame)

\* The result of receive_data is [p, exc, dispatched]: dispatched lists, in
\* order, the frames handed to _handle_frame in this call, each with the
\* exception its dispatch raised.

\* receive_data, lines 181-184: the dispatch raised h.exc, c is what
\* self.close(CloseCode.PROTOCOL_ERROR, str(exc)) did; an exception leaving
\* close replaces the one the bare raise would re-raise
receive_failed(frame, h, c) ==
    [p |-> c.p,
     exc |-> IF c.exc # NoExc THEN c.exc ELSE h.exc,
     dispatched |-> <<[frame |-> frame, exc |-> h.exc]>>]

receive_continue(frame, rest) ==
    [rest EXCEPT !.dispatched = <<[frame |-> frame, exc |-> NoExc]>> \o @]

RECURSIVE receive_loop(_)

\* receive_data, lines 179-184, h the result of self._handle_frame(frame)
receive_dispatched(frame, h) ==
    IF h.exc # NoExc
    THEN receive_failed(frame, h, close(h.p, PROTOCOL_ERROR, str(h.exc)))
    ELSE receive_continue(frame, receive_loop(h.p))

\* receive_data, lines 168-180, parsed the result of parse_frame
receive_parsed(p, parsed) ==
    IF parsed.exc.type = "FrameError"
    THEN [p |-> p, exc |-> NoExc, dispatched |-> <<>>]
    ELSE IF parsed.exc # NoExc
    THEN [p |-> p, exc |-> parsed.exc, dispatched |-> <<>>]
    ELSE receive_dispatched(
            parsed.frame,
            _handle_frame([p EXCEPT !.incoming_buffer =
                                        SubSeq(@, parsed.consumed + 1, Len(@))],
                          parsed.frame))

\* receive_data, lines 166-184: the while loop
receive_loop(p) ==
    IF p.incoming_buffer = <<>>
    THEN [p |-> p, exc |-> NoExc, dispatched |-> <<>>]
    ELSE receive_parsed(p, parse_frame(p.incoming_buffer, p.max_size))

\* a receive_data that parses each chunk on its own and keeps no bytes of the
\* chunks before it
receive_data_unbuffered(p, data) ==
    IF p.state = CLOSED
    THEN [p |-> p, exc |-> NoExc, dispatched |-> <<>>]
    ELSE receive_loop([p EXCEPT !.incoming_buffer = data])

\* WebSocketProtocol.receive_data(data)
receive_data(p, data) ==
    IF p.state = CLOSED
    THEN [p |-> p, exc |-> NoExc, dispatched |-> <<>>]
    ELSE receive_loop([p EXCEPT !.incoming_buffer = @ \o data])

\* ------------------------------------------------------- the state machine

VARIABLES
    protocol,   \* the WebSocketProtocol object
    ret,        \* the last call made on it: what was called and how it ended
    rx_log,     \* every frame receive_data dispatched so far, with its outcome
    steps,      \* calls made so far
    handler,    \* the WebSocketHandler that owns the protocol, and its threads
    server,     \* the WebSocketServer, its connections and its threads
    call        \* a call of a function of frames.py or http.py, and its result

vars == <<protocol, ret, rx_log, steps, handler, server, call>>

\* what os.urandom(4) may return
MaskKeys == {<<1, 2, 3, 4>>, <<255, 0, 128, 7>>}
\* the key the peer masks its frames with
ClientKey == <<55, 250, 33, 61>>

Zeros(n) == [i \in 1..n |-> 0]

\* the frames the peer sends.  195 169 is the UTF-8 encoding of U+00E9, so a
\* TEXT message is valid or not depending on which fragments follow which
ClientFrames ==
    {Frame(FALSE, TEXT, <<195>>), Frame(TRUE, TEXT, <<65>>),
     Frame(FALSE, BINARY, <<169, 66>>), Frame(TRUE, BINARY, <<65>>),
     Frame(FALSE, CONTINUATION, <<169>>), Frame(TRUE, CONTINUATION, <<65>>),
     Frame(TRUE, CONTINUATION, <<169, 66>>),
     Frame(TRUE, PING, <<65>>), Frame(TRUE, PONG, <<65>>),
     \* close frames: no payload, (1001, "A"), the invalid code 999
     Frame(TRUE, CLOSE, <<>>), Frame(TRUE, CLOSE, <<3, 233, 65>>),
     Frame(TRUE, CLOSE, <<3, 231>>),
     \* a frame longer than max_size, and a fragmented ping
     Frame(TRUE, BINARY, Zeros(MaxSize + 1)), Frame(FALSE, PING, <<>>)}

ClientChunks == {serialize(f, TRUE, ClientKey) : f \in ClientFrames}

CloseArgs == {<<NORMAL, <<>>>>, <<INTERNAL_ERROR, <<65>>>>}
Messages == {Str(<<65>>), Bytes(<<66>>)}
PingPayloads == {<<65>>}

\* a call of protocol.close a thread is in: where it was called from (close
\* of the handler, _handle_close, the except branch of receive_data), its
\* arguments, and the exception receive_data will re-raise
Closing(via, code, reason, exc) ==
    [via |-> via, code |-> code, reason |-> reason, exc |-> exc]

\* the thread is in no call of protocol.close
NoClosing == Closing("none", NoneInt, NoneStr, NoExc)

\* WebSocketHandler.__init__.  socket is the state of the socket, wire what
\* sendall has written to it, one chunk per call.  pc, outgoing, code and after
\* are per thread: where the thread is, the local variable outgoing, and the
\* argument and return point of the call of close it is in.  received and sent
\* count the chunks the peer delivered and the calls of send; reader_error
\* records that receive_data raised in the reader loop of an open connection.
\* closing is, per thread, the call of protocol.close the thread is in when
\* that call is followed statement by statement, and close_frames counts the
\* CLOSE frames such calls have put into the outgoing queue.
WebSocketHandler ==
    [running |-> TRUE,
     close_event |-> FALSE,
     socket |-> "open",
     wire |-> <<>>,
     pc |-> [main |-> "handshake", reader |-> "unstarted"],
     outgoing |-> [main |-> <<>>, reader |-> <<>>],
     code |-> [main |-> NoneInt, reader |-> NoneInt],
     after |-> [main |-> "cleanup", reader |-> "finally"],
     received |-> 0,
     sent |-> 0,
     reader_error |-> FALSE,
     request |-> "unread",
     invoked |-> FALSE,
     returned |-> "no",
     quiet |-> FALSE,
     eof |-> FALSE,
     surplus |-> <<>>,
     closing |-> [main |-> NoClosing, reader |-> NoClosing],
     close_frames |-> 0]

\* the clients that connect to the server
Clients == 1..MaxClients

\* WebSocketServer.__init__ (no listening socket, no handler, not running),
\* with the two threads that call into it: the one serve() starts on
\* serve_forever and the application's, which calls shutdown.  conn is what
\* has become of each client's connection, close_code the code its handler
\* was closed with by the server, to_close the handlers a shutdown still has
\* to close; active_at_shutdown and shutdowns keep what was active when
\* shutdown took effect and how many times the application called it.
\* to_send is the handlers a broadcast has still to send to; broadcast_set,
\* attempts and failures keep the handlers the broadcast started with, the
\* sends it has made on each and those that raised; broadcasts counts the
\* calls of broadcast.  accepted is the client whose socket accept has
\* returned and whose handler is not made yet, when serve_forever is followed
\* statement by statement.
WebSocketServer ==
    [running |-> FALSE,
     socket |-> "none",
     handlers |-> {},
     pc |-> [accept |-> "idle", user |-> "idle"],
     after |-> [accept |-> "done", user |-> "idle"],
     to_close |-> [accept |-> {}, user |-> {}],
     conn |-> [c \in Clients |-> "none"],
     close_code |-> [c \in Clients |-> NoneInt],
     active_at_shutdown |-> {},
     shutdowns |-> 0,
     to_send |-> {},
     broadcast_set |-> {},
     attempts |-> [c \in Clients |-> 0],
     failures |-> {},
     broadcasts |-> 0,
     accepted |-> {}]

\* no function of frames.py or http.py has been called on its own
NoCall == [fn |-> "none"]

\* the objects as their constructors leave them
Constructed ==
    /\ handler = WebSocketHandler
    /\ server = WebSocketServer
    /\ protocol = WebSocketProtocol(MaxSize)
    /\ ret = [op |-> "__init__", exc |-> NoExc, dispatched |-> <<>>,
              value |-> NoMessage, code |-> NoneInt, reason |-> NoneStr,
              data |-> <<>>]
    /\ rx_log = <<>>
    /\ steps = 0

Init ==
    /\ call = NoCall
    /\ Constructed

\* the call op ended with result r; code, reason, data, value are its
\* arguments (or the value it returned), dispatched what it dispatched
Returned(r, op, code, reason, data, value, dispatched) ==
    /\ steps' = steps + 1
    /\ protocol' = [r.p EXCEPT !.urandom = <<>>]
    /\ ret' = [op |-> op, exc |-> r.exc, dispatched |-> dispatched,
               value |-> value, code |-> code, reason |-> reason, data |-> data]
    /\ rx_log' = rx_log \o dispatched

\* the protocol as a call finds it, with the key os.urandom will hand out
Entered(key) == [protocol EXCEPT !.urandom = <<key>>]

\* protocol.state.transition(to_state), as _handle_handshake calls it for OPEN
Transition(to_state) ==
    /\ steps < MaxSteps
    /\ UNCHANGED <<handler, server, call>>
    /\ Returned(transition(protocol, to_state,
                           IF to_state = CLOSED THEN NORMAL ELSE NoneInt, <<>>),
                "transition", to_state, NoneStr, <<>>, NoMessage, <<>>)

Close(code, reason, key) ==
    /\ steps < MaxSteps
    /\ UNCHANGED <<handler, server, call>>
    /\ Returned(close(Entered(key), code, reason),
                "close", code, reason, <<>>, NoMessage, <<>>)

SendMessage(message, key) ==
    /\ steps < MaxSteps
    /\ UNCHANGED <<handler, server, call>>
    /\ Returned(send_message(Entered(key), message),
                "send_message", NoneInt, NoneStr, <<>>, message, <<>>)

Ping(data, key) ==
    /\ steps < MaxSteps
    /\ UNCHANGED <<handler, server, call>>
    /\ Returned(ping(Entered(key), data),
                "ping", NoneInt, NoneStr, data, NoMessage, <<>>)

Pong(data, key) ==
    /\ steps < MaxSteps
    /\ UNCHANGED <<handler, server, call>>
    /\ Returned(pong(Entered(key), data),
                "pong", NoneInt, NoneStr, data, NoMessage, <<>>)

ReceiveMessageReturned(r) ==
    Returned(r, "receive_message", NoneInt, NoneStr, <<>>, r.value, <<>>)

ReceiveMessage(timeout) ==
    /\ steps < MaxSteps
    /\ UNCHANGED <<handler, server, call>>
    /\ ~receive_message_blocks(protocol, timeout)
    /\ ReceiveMessageReturned(receive_message(protocol))

GetOutgoingDataReturned(r) ==
    Returned([p |-> r.p, exc |-> NoExc],
             "get_outgoing_data", NoneInt, NoneStr, r.data, NoMessage, <<>>)

GetOutgoingData ==
    /\ steps < MaxSteps
    /\ UNCHANGED <<handler, server, call>>
    /\ GetOutgoingDataReturned(get_outgoing_data(protocol))

ReceiveDataReturned(r, data) ==
    Returned(r, "receive_data", NoneInt, NoneStr, data, NoMessage, r.dispatched)

ReceiveData(data, key) ==
    /\ steps < MaxSteps
    /\ UNCHANGED <<handler, server, call>>
    /\ ReceiveDataReturned(receive_data(Entered(key), data), data)

Next ==
    \/ \E to_state \in States : Transition(to_state)
    \/ \E a \in CloseArgs, key \in MaskKeys : Close(a[1], a[2], key)
    \/ \E m \in Messages, key \in MaskKeys : SendMessage(m, key)
    \/ \E d \in PingPayloads, key \in MaskKeys : Ping(d, key)
    \/ \E d \in PingPayloads, key \in MaskKeys : Pong(d, key)
    \/ \E timeout \in {NoneInt, 0} : ReceiveMessage(timeout)
    \/ GetOutgoingData
    \/ \E data \in ClientChunks, key \in MaskKeys : ReceiveData(data, key)

Spec == Init /\ [][Next]_vars

\* ------------------------------------------------- the connection handler

Threads == {"main", "reader"}

\* the chunks the peer delivers to a handler: a text message, a continuation
\* frame that belongs to no message, a ping, a close frame
HandlerChunks ==
    {serialize(f, TRUE, ClientKey) :
        f \in {Frame(TRUE, TEXT, <<65>>), Frame(TRUE, CONTINUATION, <<65>>),
               Frame(TRUE, PING, <<65>>), Frame(TRUE, CLOSE, <<>>)}}

\* build_response(101, headers), abbreviated to the bytes "HTTP"
Response101 == <<72, 84, 84, 80>>

\* thread t calls self.close(code), to go on at after when it returns
CallClose(h, t, code, after) ==
    [h EXCEPT !.pc[t] = "close_enter", !.code[t] = code, !.after[t] = after]

\* what the first recv of a connection returns: nothing (the client has
\* gone), bytes without the end of the headers, a request whose headers fail
\* validate_handshake, a request that passes
Requests == {"none", "incomplete", "invalid_headers", "valid"}

\* a _handle_handshake that answers whatever it has read
handle_handshake_accepts(request) == NoExc

\* _handle_handshake, lines 106-119: the exception it raises for a request
handle_handshake(request) ==
    IF request = "none" THEN Exc("HandshakeError")
    ELSE IF request = "incomplete" THEN Exc("HandshakeError")
    ELSE IF request = "invalid_headers" THEN Exc("HandshakeError")
    ELSE NoExc

\* _handle_handshake, then the except clause of _handle_connection: with a
\* request that passes, the response is written and the state becomes OPEN;
\* with none, or one that fails, HandshakeError ends in close(INTERNAL_ERROR)
Handshaken(request, exc) ==
    IF exc = NoExc
    THEN /\ Returned(transition(protocol, OPEN, NoneInt, <<>>),
                     "transition", OPEN, NoneStr, <<>>, NoMessage, <<>>)
         /\ handler' = [handler EXCEPT !.wire = Append(@, Response101),
                                       !.request = request,
                                       !.pc.main = "connected"]
         /\ UNCHANGED <<server, call>>
    ELSE /\ UNCHANGED <<protocol, ret, rx_log, steps, server, call>>
         /\ handler' = [CallClose(handler, "main", INTERNAL_ERROR, "cleanup")
                            EXCEPT !.request = request]

Handshake(request) ==
    /\ handler.pc.main = "handshake"
    /\ Handshaken(request, handle_handshake(request))

\* what the peer may send right behind its request: its first frame
FirstFrames == {serialize(Frame(TRUE, TEXT, <<65>>), TRUE, ClientKey)}

\* _handle_handshake, lines 106-139, when the first recv returns a request
\* that passes together with the bytes surplus that follow it: parse_request
\* says how many bytes the request took, line 112 drops that number, and the
\* data read is used no further
HandshakeRead(surplus) ==
    /\ handler.pc.main = "handshake"
    /\ Returned(transition(protocol, OPEN, NoneInt, <<>>),
                "transition", OPEN, NoneStr, <<>>, NoMessage, <<>>)
    /\ handler' = [handler EXCEPT !.wire = Append(@, Response101),
                                  !.request = "valid",
                                  !.pc.main = "connected",
                                  !.surplus = surplus]
    /\ UNCHANGED <<server, call>>

\* _handle_connection, lines 72-78
StartReader ==
    /\ handler.pc.main = "connected"
    /\ handler' = IF protocol.state # OPEN
                  THEN [handler EXCEPT !.pc.main = "cleanup"]
                  ELSE [handler EXCEPT !.pc.main = "user", !.pc.reader = "loop",
                                       !.invoked = TRUE]
    /\ UNCHANGED <<protocol, ret, rx_log, steps, server, call>>

UserSent(r, message) ==
    /\ Returned(r, "send_message", NoneInt, NoneStr, <<>>, message, <<>>)
    /\ handler' = IF r.exc # NoExc
                  THEN [CallClose(handler, "main", INTERNAL_ERROR, "join")
                            EXCEPT !.sent = @ + 1]
                  ELSE [handler EXCEPT !.pc.main = "send_flush", !.sent = @ + 1]
    /\ UNCHANGED <<server, call>>

\* the user handler calls send(message): line 174; an exception leaves the
\* user handler and reaches line 84
UserSend(message, key) ==
    /\ handler.pc.main = "user"
    /\ handler.sent < MaxUserCalls
    /\ UserSent(send_message(Entered(key), message), message)

UserPinged(r, data) ==
    /\ Returned(r, "ping", NoneInt, NoneStr, data, NoMessage, <<>>)
    /\ handler' = IF r.exc # NoExc
                  THEN [CallClose(handler, "main", INTERNAL_ERROR, "join")
                            EXCEPT !.sent = @ + 1]
                  ELSE [handler EXCEPT !.pc.main = "send_flush", !.sent = @ + 1]
    /\ UNCHANGED <<server, call>>

\* the user handler calls ping(data): line 221, and lines 222-225 as in send
UserPing(data, key) ==
    /\ handler.pc.main = "user"
    /\ handler.sent < MaxUserCalls
    /\ UserPinged(ping(Entered(key), data), data)

\* one turn of the loop of get_outgoing_data, lines 310-315, in thread t: a
\* chunk leaves the queue for the caller's data, or the queue is empty and the
\* caller goes on, to sendall when data is not empty
Flushed(t, g, empty, sendall) ==
    /\ protocol' = g.p
    /\ handler' = IF g.chunk = NoChunk
                  THEN [handler EXCEPT !.pc[t] = IF handler.outgoing[t] = <<>>
                                                 THEN empty ELSE sendall]
                  ELSE [handler EXCEPT !.outgoing[t] = @ \o g.chunk]
    /\ UNCHANGED <<ret, rx_log, steps, server, call>>

\* send, lines 175-176
UserFlush ==
    /\ handler.pc.main = "send_flush"
    /\ Flushed("main", get_nowait(protocol), "user", "send_sendall")

\* send, lines 177-178; OSError leaves the user handler and reaches line 84
UserSendall ==
    /\ handler.pc.main = "send_sendall"
    /\ handler' = IF handler.socket = "open"
                  THEN [handler EXCEPT !.wire = Append(@, handler.outgoing.main),
                                       !.outgoing.main = <<>>,
                                       !.pc.main = "user"]
                  ELSE [CallClose(handler, "main", INTERNAL_ERROR, "join")
                            EXCEPT !.outgoing.main = <<>>]
    /\ UNCHANGED <<protocol, ret, rx_log, steps, server, call>>

\* a connection thread that closes with NORMAL however the handler ended
user_close_code_normal(outcome) == NORMAL

\* _handle_connection, lines 83-88: the code of the close that follows the
\* user handler
user_close_code(outcome) ==
    IF outcome = "raised" THEN INTERNAL_ERROR ELSE NORMAL

\* the user handler returns or raises: lines 80-88.  returned keeps how it
\* ended; quiet says that the connection was open then, with no close begun,
\* the reader waiting for the peer and nothing left to write (a chunk
\* received later ends it).
UserReturn(outcome) ==
    /\ handler.pc.main = "user"
    /\ handler' = [CallClose(handler, "main", user_close_code(outcome), "join")
                       EXCEPT !.returned = outcome,
                              !.quiet = /\ protocol.state = OPEN
                                        /\ handler.running
                                        /\ handler.pc.reader \in {"loop", "recv"}
                                        /\ protocol.outgoing_queue = <<>>]
    /\ UNCHANGED <<protocol, ret, rx_log, steps, server, call>>

\* close, lines 187-190
CloseEnter(t) ==
    /\ handler.pc[t] = "close_enter"
    /\ handler' = IF ~handler.running
                  THEN [handler EXCEPT !.pc[t] = handler.after[t]]
                  ELSE [handler EXCEPT !.running = FALSE, !.pc[t] = "close_protocol"]
    /\ UNCHANGED <<protocol, ret, rx_log, steps, server, call>>

CloseProtocolReturned(t, r) ==
    /\ Returned(r, "close", handler.code[t], <<>>, <<>>, NoMessage, <<>>)
    /\ handler' = [handler EXCEPT !.pc[t] = IF r.exc # NoExc THEN "close_wait"
                                            ELSE "close_flush"]
    /\ UNCHANGED <<server, call>>

\* close, line 193; an exception reaches line 198
CloseProtocol(t, key) ==
    /\ handler.pc[t] = "close_protocol"
    /\ CloseProtocolReturned(t, close(Entered(key), handler.code[t], <<>>))

\* close, lines 194-195
CloseFlush(t) ==
    /\ handler.pc[t] = "close_flush"
    /\ Flushed(t, get_nowait(protocol), "close_wait", "close_sendall")

\* close, lines 196-199: OSError is caught
CloseSendall(t) ==
    /\ handler.pc[t] = "close_sendall"
    /\ handler' = [handler EXCEPT
                       !.wire = IF handler.socket = "open"
                                THEN Append(@, handler.outgoing[t]) ELSE @,
                       !.outgoing[t] = <<>>,
                       !.pc[t] = "close_wait"]
    /\ UNCHANGED <<protocol, ret, rx_log, steps, server, call>>

\* close, line 202: the event is set, or five seconds have passed
CloseWait(t) ==
    /\ handler.pc[t] = "close_wait"
    /\ handler' = [handler EXCEPT !.pc[t] = "close_shutdown"]
    /\ UNCHANGED <<protocol, ret, rx_log, steps, server, call>>

\* close, lines 204-207
CloseShutdown(t) ==
    /\ handler.pc[t] = "close_shutdown"
    /\ handler' = [handler EXCEPT
                       !.socket = IF @ = "open" THEN "shutdown" ELSE @,
                       !.pc[t] = "close_socket"]
    /\ UNCHANGED <<protocol, ret, rx_log, steps, server, call>>

\* close, lines 209-212
CloseSocket(t) ==
    /\ handler.pc[t] = "close_socket"
    /\ handler' = [handler EXCEPT !.socket = "closed", !.pc[t] = handler.after[t]]
    /\ UNCHANGED <<protocol, ret, rx_log, steps, server, call>>

\* _handle_connection, line 91: reader_thread.join()
JoinReader ==
    /\ handler.pc.main = "join"
    /\ handler.pc.reader = "done"
    /\ handler' = [handler EXCEPT !.pc.main = "cleanup"]
    /\ UNCHANGED <<protocol, ret, rx_log, steps, server, call>>

\* _run, line 64: _cleanup
Cleanup ==
    /\ handler.pc.main = "cleanup"
    /\ handler' = [handler EXCEPT !.running = FALSE, !.socket = "closed",
                                  !.pc.main = "done"]
    /\ UNCHANGED <<protocol, ret, rx_log, steps, server, call>>

\* _reader_loop, line 144: while self._running
ReaderLoop ==
    /\ handler.pc.reader = "loop"
    /\ handler' = [handler EXCEPT !.pc.reader = IF handler.running THEN "recv"
                                                ELSE "finally"]
    /\ UNCHANGED <<protocol, ret, rx_log, steps, server, call>>

ReaderReceived(r, data, was_open) ==
    /\ Returned(r, "receive_data", NoneInt, NoneStr, data, NoMessage, r.dispatched)
    /\ handler' =
           IF r.exc = NoExc
           THEN [handler EXCEPT !.pc.reader = "flush", !.received = @ + 1,
                                !.quiet = FALSE]
           ELSE IF r.exc.type = "ConnectionClosed"
           THEN [handler EXCEPT !.pc.reader = "finally", !.received = @ + 1,
                                !.quiet = FALSE]
           ELSE [CallClose(handler, "reader", INTERNAL_ERROR, "finally")
                     EXCEPT !.received = @ + 1,
                            !.quiet = FALSE,
                            !.reader_error = @ \/ was_open]
    /\ UNCHANGED <<server, call>>

\* _reader_loop, lines 146-150 and 158-163: recv hands over a chunk
ReaderRecv(data, key) ==
    /\ handler.pc.reader = "recv"
    /\ handler.socket = "open"
    /\ handler.received < MaxChunks
    /\ ReaderReceived(receive_data(Entered(key), data), data, protocol.state = OPEN)

\* _reader_loop, lines 146-148: recv returns b"", the peer has closed its side
\* or this side has shut the socket down; eof keeps that the transport ended
\* on an open connection (state OPEN, no close begun on this side)
ReaderEof ==
    /\ handler.pc.reader = "recv"
    /\ handler.socket # "closed"
    /\ handler' = [handler EXCEPT !.pc.reader = "finally",
                                  !.eof = /\ protocol.state = OPEN
                                          /\ handler.running
                                          /\ handler.socket = "open"]
    /\ UNCHANGED <<protocol, ret, rx_log, steps, server, call>>

\* _reader_loop, lines 146 and 160-163: recv on the closed socket raises OSError
ReaderRecvFails ==
    /\ handler.pc.reader = "recv"
    /\ handler.socket = "closed"
    /\ handler' = CallClose(handler, "reader", INTERNAL_ERROR, "finally")
    /\ UNCHANGED <<protocol, ret, rx_log, steps, server, call>>

\* _reader_loop, lines 153-154
ReaderFlush ==
    /\ handler.pc.reader = "flush"
    /\ Flushed("reader", get_nowait(protocol), "loop", "sendall")

\* _reader_loop, lines 155-156, and 160-163 when sendall raises OSError
ReaderSendall ==
    /\ handler.pc.reader = "sendall"
    /\ handler' = IF handler.socket = "open"
                  THEN [handler EXCEPT !.wire = Append(@, handler.outgoing.reader),
                                       !.outgoing.reader = <<>>,
                                       !.pc.reader = "loop"]
                  ELSE [CallClose(handler, "reader", INTERNAL_ERROR, "finally")
                            EXCEPT !.outgoing.reader = <<>>]
    /\ UNCHANGED <<protocol, ret, rx_log, steps, server, call>>

\* _reader_loop, lines 164-165
ReaderFinally ==
    /\ handler.pc.reader = "finally"
    /\ handler' = [handler EXCEPT !.close_event = TRUE, !.pc.reader = "done"]
    /\ UNCHANGED <<protocol, ret, rx_log, steps, server, call>>

\* the keys os.urandom hands out while a handler runs: one is enough, no step
\* of the handler depends on the value of a key
HandlerKeys == {<<1, 2, 3, 4>>}

NextHandler ==
    \/ \E request \in Requests : Handshake(request)
    \/ StartReader
    \/ \E m \in Messages, key \in HandlerKeys : UserSend(m, key)
    \/ \E d \in PingPayloads, key \in HandlerKeys : UserPing(d, key)
    \/ UserFlush
    \/ UserSendall
    \/ \E outcome \in {"normally", "raised"} : UserReturn(outcome)
    \/ \E t \in Threads : CloseEnter(t)
    \/ \E t \in Threads, key \in HandlerKeys : CloseProtocol(t, key)
    \/ \E t \in Threads : CloseFlush(t)
    \/ \E t \in Threads : CloseSendall(t)
    \/ \E t \in Threads : CloseWait(t)
    \/ \E t \in Threads : CloseShutdown(t)
    \/ \E t \in Threads : CloseSocket(t)
    \/ JoinReader
    \/ Cleanup
    \/ ReaderLoop
    \/ \E data \in HandlerChunks, key \in HandlerKeys : ReaderRecv(data, key)
    \/ ReaderEof
    \/ ReaderRecvFails
    \/ ReaderFlush
    \/ ReaderSendall
    \/ ReaderFinally

SpecHandler == Init /\ [][NextHandler]_vars

\* recv, line 236, when receive_message returns or raises at once; an
\* exception leaves the user handler and reaches line 84
UserRecvReturned(r) ==
    /\ Returned(r, "receive_message", NoneInt, NoneStr, <<>>, r.value, <<>>)
    /\ handler' = IF r.exc # NoExc
                  THEN [CallClose(handler, "main", INTERNAL_ERROR, "join")
                            EXCEPT !.sent = @ + 1]
                  ELSE [handler EXCEPT !.sent = @ + 1]
    /\ UNCHANGED <<server, call>>

\* the user handler calls recv() with no timeout, and the call does not wait
UserRecv ==
    /\ handler.pc.main = "user"
    /\ handler.sent < MaxUserCalls
    /\ ~receive_message_blocks(protocol, NoneInt)
    /\ UserRecvReturned(receive_message(protocol))

\* the user handler calls recv() with no timeout on a connection that is not
\* CLOSED and has no message: the thread waits in Queue.get, protocol.py 330
UserRecvBlocks ==
    /\ handler.pc.main = "user"
    /\ handler.sent < MaxUserCalls
    /\ receive_message_blocks(protocol, NoneInt)
    /\ handler' = [handler EXCEPT !.pc.main = "recv", !.sent = @ + 1]
    /\ UNCHANGED <<protocol, ret, rx_log, steps, server, call>>

\* Queue.get returns to the waiting thread the message that put has added;
\* nothing else ends the wait
UserRecvWake ==
    /\ handler.pc.main = "recv"
    /\ protocol.message_queue # <<>>
    /\ Returned([p |-> [protocol EXCEPT !.message_queue = Tail(@)],
                 exc |-> NoExc],
                "receive_message", NoneInt, NoneStr, <<>>,
                Head(protocol.message_queue), <<>>)
    /\ handler' = [handler EXCEPT !.pc.main = "user"]
    /\ UNCHANGED <<server, call>>

\* the connection with a user handler that receives
NextHandlerRecv ==
    \/ \E request \in Requests : Handshake(request)
    \/ StartReader
    \/ UserRecv
    \/ UserRecvBlocks
    \/ UserRecvWake
    \/ \E outcome \in {"normally", "raised"} : UserReturn(outcome)
    \/ \E t \in Threads : CloseEnter(t)
    \/ \E t \in Threads, key \in HandlerKeys : CloseProtocol(t, key)
    \/ \E t \in Threads : CloseFlush(t)
    \/ \E t \in Threads : CloseSendall(t)
    \/ \E t \in Threads : CloseWait(t)
    \/ \E t \in Threads : CloseShutdown(t)
    \/ \E t \in Threads : CloseSocket(t)
    \/ JoinReader
    \/ Cleanup
    \/ ReaderLoop
    \/ \E data \in HandlerChunks, key \in HandlerKeys : ReaderRecv(data, key)
    \/ ReaderEof
    \/ ReaderRecvFails
    \/ ReaderFlush
    \/ ReaderSendall
    \/ ReaderFinally

\* the connection when the peer may send its first frame with its request
NextHandlerRead ==
    \/ \E surplus \in FirstFrames : HandshakeRead(surplus)
    \/ NextHandler

SpecHandlerRead == Init /\ [][NextHandlerRead]_vars

\* the steps of the connection thread that wait for nobody: neither for the
\* peer (the recv of the handshake) nor for the user handler (its calls and
\* its return); close waits for the reader at most five seconds (line 202)
MainStep ==
    \/ StartReader
    \/ UserFlush
    \/ UserSendall
    \/ CloseEnter("main")
    \/ \E key \in HandlerKeys : CloseProtocol("main", key)
    \/ CloseFlush("main")
    \/ CloseSendall("main")
    \/ CloseWait("main")
    \/ CloseShutdown("main")
    \/ CloseSocket("main")
    \/ JoinReader
    \/ Cleanup

\* the steps of the reader thread that do not wait for the peer in recv
ReaderStep ==
    \/ ReaderLoop
    \/ ReaderRecvFails
    \/ ReaderFlush
    \/ ReaderSendall
    \/ CloseEnter("reader")
    \/ \E key \in HandlerKeys : CloseProtocol("reader", key)
    \/ CloseFlush("reader")
    \/ CloseSendall("reader")
    \/ CloseWait("reader")
    \/ CloseShutdown("reader")
    \/ CloseSocket("reader")
    \/ ReaderFinally

\* the two threads of a connection are daemon threads the interpreter keeps
\* scheduling: a step that stays possible is taken
SpecHandlerLive ==
    Init /\ [][NextHandler]_vars /\ WF_vars(MainStep) /\ WF_vars(ReaderStep)

\* the threads keep being scheduled, and a thread that waits in Queue.get
\* is woken when the queue holds a message
SpecHandlerRecv ==
    /\ Init /\ [][NextHandlerRecv]_vars
    /\ WF_vars(MainStep) /\ WF_vars(ReaderStep) /\ WF_vars(UserRecvWake)

\* --------------------------- protocol.close, statement by statement
\* WebSocketProtocol takes no lock in close, _handle_close or receive_data
\* (its only lock is the one of ConnectionState, protocol.py 52), so the
\* main thread in close and the reader thread in receive_data interleave
\* between the statements of protocol.close.

\* a step of a thread that changes the protocol and the handler only
Stepped(p, h) ==
    /\ protocol' = [p EXCEPT !.urandom = <<>>]
    /\ handler' = h
    /\ UNCHANGED <<ret, rx_log, steps, server, call>>

\* thread t enters protocol.close(code, reason)
ProtocolCloseCalled(h, t, via, code, reason, exc) ==
    [h EXCEPT !.closing[t] = Closing(via, code, reason, exc),
              !.pc[t] = "close_385"]

\* _reader_loop, lines 158-163: receive_data raised exc
ReaderRaised(h, exc) ==
    IF exc.type = "ConnectionClosed"
    THEN [h EXCEPT !.pc.reader = "finally", !.closing.reader = NoClosing]
    ELSE [CallClose(h, "reader", INTERNAL_ERROR, "finally")
              EXCEPT !.closing.reader = NoClosing]

\* protocol.close raised exc in thread t: server.py 198 logs it; out of
\* _handle_close it reaches protocol.py 181-183; out of the close of line 183
\* it leaves receive_data
ProtocolCloseRaised(h, t, exc) ==
    IF h.closing[t].via = "close"
    THEN [h EXCEPT !.pc[t] = "close_wait", !.closing[t] = NoClosing]
    ELSE IF h.closing[t].via = "_handle_close"
    THEN ProtocolCloseCalled(h, t, "receive_data", PROTOCOL_ERROR, str(exc), exc)
    ELSE ReaderRaised(h, exc)

\* protocol.close returned in thread t: to server.py 194, to protocol.py 287,
\* or to the bare raise of protocol.py 184
ProtocolCloseReturned(h, t) ==
    IF h.closing[t].via = "close"
    THEN [h EXCEPT !.pc[t] = "close_flush", !.closing[t] = NoClosing]
    ELSE IF h.closing[t].via = "_handle_close"
    THEN [h EXCEPT !.pc[t] = "handle_287"]
    ELSE ReaderRaised(h, h.closing[t].exc)

\* server.py 193: self.protocol.close(code)
CloseCall(t) ==
    /\ handler.pc[t] = "close_protocol"
    /\ Stepped(protocol,
               ProtocolCloseCalled(handler, t, "close", handler.code[t], <<>>, NoExc))

\* close, lines 385-386
CloseTestState(t) ==
    /\ handler.pc[t] = "close_385"
    /\ Stepped(protocol,
               IF protocol.state = CLOSED
               THEN ProtocolCloseRaised(handler, t, RaiseConnectionClosed(protocol).exc)
               ELSE [handler EXCEPT !.pc[t] = "close_388"])

\* close, line 388: if not self._close_frame_sent
CloseTestSent(t) ==
    /\ handler.pc[t] = "close_388"
    /\ Stepped(protocol,
               [handler EXCEPT !.pc[t] = IF protocol.close_frame_sent
                                         THEN "close_393" ELSE "close_389"])

\* close, lines 389-390, enc the encoded payload
close_queue_frame(p, enc) ==
    IF enc.exc # NoExc THEN R(p, enc.exc)
    ELSE send_frame(p, Frame(TRUE, CLOSE, enc.payload))

CloseFrameQueued(t, r) ==
    Stepped(r.p,
            IF r.exc # NoExc THEN ProtocolCloseRaised(handler, t, r.exc)
            ELSE [handler EXCEPT !.pc[t] = "close_391", !.close_frames = @ + 1])

\* close, lines 389-390
CloseSendFrame(t, key) ==
    /\ handler.pc[t] = "close_389"
    /\ CloseFrameQueued(t, close_queue_frame(
                               Entered(key),
                               encode_close_payload(handler.closing[t].code,
                                                    handler.closing[t].reason)))

\* close, line 391
CloseMarkSent(t) ==
    /\ handler.pc[t] = "close_391"
    /\ Stepped([protocol EXCEPT !.close_frame_sent = TRUE],
               [handler EXCEPT !.pc[t] = "close_393"])

CloseTransitioned(t, r) ==
    Stepped(r.p, IF r.exc # NoExc THEN ProtocolCloseRaised(handler, t, r.exc)
                 ELSE ProtocolCloseReturned(handler, t))

\* close, lines 393-396
CloseTransition(t) ==
    /\ handler.pc[t] = "close_393"
    /\ CloseTransitioned(t, close_transition(R(protocol, NoExc),
                                             handler.closing[t].code,
                                             handler.closing[t].reason))

HandleCloseUpdated(r) ==
    Stepped(r.p,
            IF r.exc # NoExc
            THEN ProtocolCloseCalled(handler, "reader", "receive_data",
                                     PROTOCOL_ERROR, str(r.exc), r.exc)
            ELSE [handler EXCEPT !.pc.reader = "flush",
                                 !.closing.reader = NoClosing])

\* _handle_close, lines 286-288, and the return of receive_data, whose
\* buffer is empty
HandleCloseUpdate ==
    /\ handler.pc.reader = "handle_287"
    /\ HandleCloseUpdated(handle_close_update(R(protocol, NoExc),
                                              handler.closing.reader.code,
                                              handler.closing.reader.reason))

\* receive_data, lines 181-183: the dispatch raised exc
ReaderDispatchRaised(h, exc) ==
    ProtocolCloseCalled(h, "reader", "receive_data", PROTOCOL_ERROR, str(exc), exc)

\* _handle_close, lines 280-284, d the decoded payload of the CLOSE frame
ReaderCloseFrame(p, h, d) ==
    IF d.exc # NoExc THEN Stepped(p, ReaderDispatchRaised(h, d.exc))
    ELSE Stepped([p EXCEPT !.close_frame_received = TRUE],
                 IF ~p.close_frame_sent
                 THEN ProtocolCloseCalled(h, "reader", "_handle_close",
                                          d.code, d.reason, NoExc)
                 ELSE [h EXCEPT !.pc.reader = "handle_287",
                                !.closing.reader =
                                    Closing("_handle_close", d.code, d.reason, NoExc)])

\* receive_data, lines 179-184, for a frame that is not a CLOSE frame, r the
\* result of _handle_frame
ReaderOtherFrame(h, r) ==
    Stepped(r.p, IF r.exc # NoExc THEN ReaderDispatchRaised(h, r.exc)
                 ELSE [h EXCEPT !.pc.reader = "flush"])

\* receive_data, lines 166-180, for a chunk that is one whole frame
ReaderDispatch(p, h, frame) ==
    IF frame.opcode = CLOSE
    THEN ReaderCloseFrame(p, h, IF Len(frame.payload) >= 2
                                THEN decode_close_payload(frame.payload)
                                ELSE [exc |-> NoExc, code |-> NORMAL, reason |-> <<>>])
    ELSE ReaderOtherFrame(h, _handle_frame(p, frame))

\* _reader_loop, lines 146-150: recv hands over a chunk and receive_data
\* runs up to the point where it calls protocol.close
ReaderRecvFrame(data, key) ==
    /\ handler.pc.reader = "recv"
    /\ handler.socket = "open"
    /\ handler.received < MaxChunks
    /\ IF protocol.state = CLOSED
       THEN Stepped(protocol, [handler EXCEPT !.pc.reader = "flush",
                                              !.received = @ + 1])
       ELSE ReaderDispatch(Entered(key),
                           [handler EXCEPT !.received = @ + 1],
                           parse_frame(data, protocol.max_size).frame)

\* the connection, protocol.close followed statement by statement
NextHandlerClose ==
    \/ \E request \in Requests : Handshake(request)
    \/ StartReader
    \/ \E outcome \in {"normally", "raised"} : UserReturn(outcome)
    \/ \E t \in Threads : CloseEnter(t)
    \/ \E t \in Threads : CloseCall(t)
    \/ \E t \in Threads : CloseTestState(t)
    \/ \E t \in Threads : CloseTestSent(t)
    \/ \E t \in Threads, key \in HandlerKeys : CloseSendFrame(t, key)
    \/ \E t \in Threads : CloseMarkSent(t)
    \/ \E t \in Threads : CloseTransition(t)
    \/ HandleCloseUpdate
    \/ \E t \in Threads : CloseFlush(t)
    \/ \E t \in Threads : CloseSendall(t)
    \/ \E t \in Threads : CloseWait(t)
    \/ \E t \in Threads : CloseShutdown(t)
    \/ \E t \in Threads : CloseSocket(t)
    \/ JoinReader
    \/ Cleanup
    \/ ReaderLoop
    \/ \E data \in HandlerChunks, key \in HandlerKeys : ReaderRecvFrame(data, key)
    \/ ReaderEof
    \/ ReaderRecvFails
    \/ ReaderFlush
    \/ ReaderSendall
    \/ ReaderFinally

SpecHandlerClose == Init /\ [][NextHandlerClose]_vars

\* ------------------------------------------- several frames in one chunk

\* chunks of the peer that hold one frame or two: pings with different
\* payloads, a close frame, a text and a binary message
StreamFrames ==
    [ping_a |-> Frame(TRUE, PING, <<65>>), ping_b |-> Frame(TRUE, PING, <<66>>),
     close |-> Frame(TRUE, CLOSE, <<>>),
     text |-> Frame(TRUE, TEXT, <<65>>), binary |-> Frame(TRUE, BINARY, <<66>>)]

StreamSequences ==
    {<<"ping_a">>, <<"ping_b">>, <<"close">>, <<"text">>, <<"binary">>,
     <<"ping_a", "ping_b">>, <<"ping_b", "ping_a">>,
     <<"close", "ping_a">>, <<"ping_a", "close">>,
     <<"text", "binary">>, <<"binary", "text">>, <<"close", "text">>}

StreamChunk(names) ==
    Join([i \in 1..Len(names) |-> serialize(StreamFrames[names[i]], TRUE, ClientKey)])

StreamChunks == {StreamChunk(names) : names \in StreamSequences}

\* what two calls of os.urandom(4) may return
KeySequences == {keys \in MaskKeys \X MaskKeys : keys[1] # keys[2]}

\* receive_data(data) with a chunk of several frames
ReceiveStream(data, keys) ==
    /\ steps < MaxSteps
    /\ UNCHANGED <<handler, server, call>>
    /\ ReceiveDataReturned(receive_data([protocol EXCEPT !.urandom = keys], data),
                           data)

NextStream ==
    \/ \E to_state \in {OPEN} : Transition(to_state)
    \/ \E data \in StreamChunks, keys \in KeySequences : ReceiveStream(data, keys)
    \/ \E timeout \in {NoneInt, 0} : ReceiveMessage(timeout)
    \/ \E key \in MaskKeys : Close(NORMAL, <<>>, key)
    \/ GetOutgoingData

SpecStream == Init /\ [][NextStream]_vars

\* --------------------------------------------------------------- the server

ServerThreads == {"accept", "user"}

\* serve_forever, lines 292-303: the listening socket is created and bound,
\* _running is set
ServeForever ==
    /\ server.pc.accept = "idle"
    /\ server' = IF server.running
                 THEN [server EXCEPT !.pc.accept = "done"]
                 ELSE [server EXCEPT !.socket = "listening", !.running = TRUE,
                                     !.pc.accept = "loop"]
    /\ UNCHANGED <<protocol, ret, rx_log, steps, handler, call>>

\* serve_forever, line 305: while self._running; when the loop ends the
\* finally clause calls shutdown (line 329)
LoopTest ==
    /\ server.pc.accept = "loop"
    /\ server' = IF server.running
                 THEN [server EXCEPT !.pc.accept = "accept"]
                 ELSE [server EXCEPT !.pc.accept = "shutdown_enter"]
    /\ UNCHANGED <<protocol, ret, rx_log, steps, handler, call>>

\* serve_forever, lines 307-321: accept returns the connection of client c; a
\* WebSocketHandler is made for it, added to _handlers and started
Accept(c) ==
    /\ server.pc.accept = "accept"
    /\ server.socket = "listening"
    /\ server.conn[c] = "none"
    /\ server' = [server EXCEPT !.handlers = @ \cup {c},
                                !.conn[c] = "running",
                                !.pc.accept = "loop"]
    /\ UNCHANGED <<protocol, ret, rx_log, steps, handler, call>>

\* serve_forever, lines 307 and 323-324: accept on the closed socket raises
\* OSError, which is logged
AcceptFails ==
    /\ server.pc.accept = "accept"
    /\ server.socket = "closed"
    /\ server' = [server EXCEPT !.pc.accept = "loop"]
    /\ UNCHANGED <<protocol, ret, rx_log, steps, handler, call>>

\* the thread of the handler of client c ends (the user handler returned or
\* raised, the handshake failed, or the handler was closed): _run calls
\* _cleanup, which calls _remove_handler (server.py 243-246, 352-354)
HandlerEnds(c) ==
    /\ server.conn[c] \in {"running", "closed"}
    /\ server' = [server EXCEPT !.handlers = @ \ {c}, !.conn[c] = "ended"]
    /\ UNCHANGED <<protocol, ret, rx_log, steps, handler, call>>

\* the application calls shutdown()
CallShutdown ==
    /\ server.pc.user = "idle"
    /\ server.shutdowns < MaxShutdowns
    /\ server' = [server EXCEPT !.pc.user = "shutdown_enter", !.shutdowns = @ + 1]
    /\ UNCHANGED <<protocol, ret, rx_log, steps, handler, call>>

\* shutdown, lines 333-336
ShutdownEnter(t) ==
    /\ server.pc[t] = "shutdown_enter"
    /\ server' = IF ~server.running
                 THEN [server EXCEPT !.pc[t] = server.after[t]]
                 ELSE [server EXCEPT !.running = FALSE,
                                     !.active_at_shutdown = server.handlers,
                                     !.pc[t] = "shutdown_socket"]
    /\ UNCHANGED <<protocol, ret, rx_log, steps, handler, call>>

\* shutdown, lines 339-343: the listening socket is closed
ShutdownSocket(t) ==
    /\ server.pc[t] = "shutdown_socket"
    /\ server' = [server EXCEPT !.socket = IF @ = "none" THEN @ ELSE "closed",
                                !.pc[t] = "shutdown_list"]
    /\ UNCHANGED <<protocol, ret, rx_log, steps, handler, call>>

\* shutdown, line 346: list(self._handlers)
ShutdownList(t) ==
    /\ server.pc[t] = "shutdown_list"
    /\ server' = [server EXCEPT !.to_close[t] = server.handlers,
                                !.pc[t] = "shutdown_close"]
    /\ UNCHANGED <<protocol, ret, rx_log, steps, handler, call>>

\* the code handler.close() of line 348 closes with: the default of the
\* parameter code of WebSocketHandler.close (line 180)
shutdown_close_code == NORMAL

\* shutdown, lines 346-350: handler.close() for one handler of the list; a
\* handler that is no longer running returns at once (lines 187-188)
ShutdownClose(t, c) ==
    /\ server.pc[t] = "shutdown_close"
    /\ c \in server.to_close[t]
    /\ server' = IF server.conn[c] = "running"
                 THEN [server EXCEPT !.to_close[t] = @ \ {c},
                                     !.conn[c] = "closed",
                                     !.close_code[c] = shutdown_close_code]
                 ELSE [server EXCEPT !.to_close[t] = @ \ {c}]
    /\ UNCHANGED <<protocol, ret, rx_log, steps, handler, call>>

\* shutdown returns when the list is exhausted
ShutdownReturn(t) ==
    /\ server.pc[t] = "shutdown_close"
    /\ server.to_close[t] = {}
    /\ server' = [server EXCEPT !.pc[t] = server.after[t]]
    /\ UNCHANGED <<protocol, ret, rx_log, steps, handler, call>>

\* the application calls broadcast(message): line 367 takes self.handlers,
\* a set built from the registry (lines 356-359)
CallBroadcast ==
    /\ server.pc.user = "idle"
    /\ server.broadcasts < MaxBroadcasts
    /\ server' = [server EXCEPT !.pc.user = "broadcast",
                                !.broadcasts = @ + 1,
                                !.to_send = server.handlers,
                                !.broadcast_set = server.handlers,
                                !.attempts = [c \in Clients |-> 0],
                                !.failures = {}]
    /\ UNCHANGED <<protocol, ret, rx_log, steps, handler, call>>

\* a broadcast whose loop is left by the exception of a send
broadcast_raises(rest, raised) ==
    IF raised THEN {} ELSE rest

\* broadcast, lines 368-371: the handlers the loop has still to visit after
\* a send; an exception of the send is logged and the loop goes on
broadcast_except(rest, raised) == rest

\* whether handler.send of line 369 can raise, and whether it can return:
\* the socket of a handler that has ended is closed (server.py 249), so
\* sendall raises OSError; a handler that runs sends, or raises when its
\* protocol is CLOSED or its peer is gone
send_outcomes(status) ==
    IF status = "ended" THEN {TRUE} ELSE BOOLEAN

\* broadcast, lines 367-371: handler.send(message) for one handler of the set
BroadcastSend(c, raised) ==
    /\ server.pc.user = "broadcast"
    /\ c \in server.to_send
    /\ raised \in send_outcomes(server.conn[c])
    /\ server' = [server EXCEPT
                      !.to_send = broadcast_except(server.to_send \ {c}, raised),
                      !.attempts[c] = @ + 1,
                      !.failures = IF raised THEN @ \cup {c} ELSE @]
    /\ UNCHANGED <<protocol, ret, rx_log, steps, handler, call>>

\* broadcast returns when the set is exhausted
BroadcastReturn ==
    /\ server.pc.user = "broadcast"
    /\ server.to_send = {}
    /\ server' = [server EXCEPT !.pc.user = "idle"]
    /\ UNCHANGED <<protocol, ret, rx_log, steps, handler, call>>

NextServer ==
    \/ ServeForever
    \/ LoopTest
    \/ \E c \in Clients : Accept(c)
    \/ AcceptFails
    \/ \E c \in Clients : HandlerEnds(c)
    \/ CallShutdown
    \/ \E t \in ServerThreads : ShutdownEnter(t)
    \/ \E t \in ServerThreads : ShutdownSocket(t)
    \/ \E t \in ServerThreads : ShutdownList(t)
    \/ \E t \in ServerThreads, c \in Clients : ShutdownClose(t, c)
    \/ \E t \in ServerThreads : ShutdownReturn(t)
    \/ CallBroadcast
    \/ \E c \in Clients, raised \in BOOLEAN : BroadcastSend(c, raised)
    \/ BroadcastReturn

SpecServer == Init /\ [][NextServer]_vars

\* ------------------------------------- serve_forever, statement by statement
\* serve_forever and shutdown share no lock: shutdown may run between the
\* return of accept (line 307) and the registration and start of the handler
\* (lines 313-321).

\* serve_forever, line 307: accept returns the connection of client c
AcceptReturns(c) ==
    /\ server.pc.accept = "accept"
    /\ server.socket = "listening"
    /\ server.conn[c] = "none"
    /\ server' = [server EXCEPT !.accepted = {c},
                                !.conn[c] = "accepted",
                                !.pc.accept = "accepted"]
    /\ UNCHANGED <<protocol, ret, rx_log, steps, handler, call>>

\* serve_forever, lines 308-309 and 323-324: wrap_socket raises, the
\* exception is logged and no handler is made
AcceptWrapFails(c) ==
    /\ server.pc.accept = "accepted"
    /\ c \in server.accepted
    /\ server' = [server EXCEPT !.accepted = {},
                                !.conn[c] = "dropped",
                                !.pc.accept = "loop"]
    /\ UNCHANGED <<protocol, ret, rx_log, steps, handler, call>>

\* serve_forever, lines 313-321: the handler is made, added to _handlers
\* and started
AcceptStart(c) ==
    /\ server.pc.accept = "accepted"
    /\ c \in server.accepted
    /\ server' = [server EXCEPT !.accepted = {},
                                !.handlers = @ \cup {c},
                                !.conn[c] = "running",
                                !.pc.accept = "loop"]
    /\ UNCHANGED <<protocol, ret, rx_log, steps, handler, call>>

NextServerAccept ==
    \/ ServeForever
    \/ LoopTest
    \/ \E c \in Clients : AcceptReturns(c)
    \/ \E c \in Clients : AcceptWrapFails(c)
    \/ \E c \in Clients : AcceptStart(c)
    \/ AcceptFails
    \/ \E c \in Clients : HandlerEnds(c)
    \/ CallShutdown
    \/ \E t \in ServerThreads : ShutdownEnter(t)
    \/ \E t \in ServerThreads : ShutdownSocket(t)
    \/ \E t \in ServerThreads : ShutdownList(t)
    \/ \E t \in ServerThreads, c \in Clients : ShutdownClose(t, c)
    \/ \E t \in ServerThreads : ShutdownReturn(t)

SpecServerAccept == Init /\ [][NextServerAccept]_vars

\* ---------------------------------------------- the functions of frames.py

\* the payload lengths at which serialize changes the encoding of the length
ShortBoundary == 125
LongBoundary == 65535
\* a payload of n bytes that are not all the same
Payload(n) == [i \in 1..n |-> (i * 7) % 64]
\* what os.urandom(4) returns to serialize
FrameKeys == {<<37, 250, 129, 255>>}
\* the numbers tried as opcodes: the six defined ones and some others
OpcodeArgs == Opcodes \cup {3, 7, 11, 15}
\* the reserved bits tried: none, each one, all three
RsvArgs ==
    {<<FALSE, FALSE, FALSE>>, <<TRUE, FALSE, FALSE>>, <<FALSE, TRUE, FALSE>>,
     <<FALSE, FALSE, TRUE>>, <<TRUE, TRUE, TRUE>>}
\* the arguments of Frame(...), valid and invalid, with payloads on both
\* sides of the 125/126 boundary
ShortArgs ==
    {[fin |-> fin, opcode |-> opcode, payload |-> Payload(n),
      rsv1 |-> rsv[1], rsv2 |-> rsv[2], rsv3 |-> rsv[3]] :
        fin \in BOOLEAN, opcode \in OpcodeArgs,
        n \in {0, 1, ShortBoundary, ShortBoundary + 1}, rsv \in RsvArgs}
\* BINARY frames with payloads on both sides of the 65535/65536 boundary
LongArgs ==
    {[fin |-> fin, opcode |-> BINARY, payload |-> Payload(n),
      rsv1 |-> FALSE, rsv2 |-> FALSE, rsv3 |-> FALSE] :
        fin \in BOOLEAN, n \in {LongBoundary, LongBoundary + 1}}
FrameArgs == ShortArgs \cup LongArgs
\* mask=False, or mask=True with the key os.urandom(4) returns
MaskArgs == {<<FALSE, Zeros(4)>>} \cup {<<TRUE, key>> : key \in FrameKeys}
\* max_size=None and the sizes at the boundaries
MaxSizeArgs == {NoneInt, ShortBoundary, LongBoundary}
\* the bytes that follow a frame in the data given to parse_frame
RestArgs == {<<>>, <<129, 0>>}
\* the lengths a prefix of the data is cut at: every length for short data,
\* those around the header and the end for long data
Cuts(data) ==
    IF Len(data) <= 140 THEN 0..(Len(data) - 1)
    ELSE 0..14 \cup {Len(data) \div 2, Len(data) - 2, Len(data) - 1}

\* the close codes tried, inside and outside [1000, 4999]
CodeArgs == {0, 999, 1000, 1001, 1005, 2999, 4999, 5000, 65535}
Repeat(c, n) == [i \in 1..n |-> c]
\* the reasons tried: U+0041 takes one byte, U+00E9 two, U+20AC three and
\* U+1F600 four, so that the encodings are 0, 1, 123 and 124 bytes long
ReasonArgs ==
    {<<>>, <<65>>,
     Repeat(128512, 30) \o <<8364>>, Repeat(128512, 31),
     Repeat(128512, 30) \o <<233, 65>>, Repeat(128512, 30) \o <<233, 233>>}
\* the close payloads a peer sends
PayloadArgs ==
    {<<>>, <<3>>, <<3, 232>>, <<3, 231>>, <<3, 233, 79, 75>>, <<3, 232, 255>>,
     <<19, 136>>}

InitFrames ==
    /\ call \in {[fn |-> "args", args |-> args, mask |-> mask[1],
                  mask_key |-> mask[2]] : args \in FrameArgs, mask \in MaskArgs}
          \cup {[fn |-> "close_args", code |-> code, reason |-> reason] :
                    code \in CodeArgs, reason \in ReasonArgs}
          \cup {[fn |-> "payload", payload |-> payload] :
                    payload \in PayloadArgs}
    /\ Constructed

\* payload = encode_close_payload(code, reason)
EncodeClose ==
    /\ call.fn = "close_args"
    /\ call' = [fn |-> "encode_close_payload", code |-> call.code,
                reason |-> call.reason,
                out |-> encode_close_payload(call.code, call.reason)]
    /\ UNCHANGED <<protocol, ret, rx_log, steps, handler, server>>

\* decode_close_payload(payload) of the payload just encoded
DecodeEncoded ==
    /\ call.fn = "encode_close_payload"
    /\ call.out.exc = NoExc
    /\ call' = [fn |-> "decode_encoded", code |-> call.code,
                reason |-> call.reason, payload |-> call.out.payload,
                out |-> decode_close_payload(call.out.payload)]
    /\ UNCHANGED <<protocol, ret, rx_log, steps, handler, server>>

\* decode_close_payload(payload) of a payload received
DecodeClose ==
    /\ call.fn = "payload"
    /\ call' = [fn |-> "decode_close_payload", payload |-> call.payload,
                out |-> decode_close_payload(call.payload)]
    /\ UNCHANGED <<protocol, ret, rx_log, steps, handler, server>>

\* frame = Frame(fin, opcode, payload, rsv1, rsv2, rsv3)
Construct ==
    /\ call.fn = "args"
    /\ call' = [fn |-> "Frame", args |-> call.args, mask |-> call.mask,
                mask_key |-> call.mask_key,
                out |-> Frame_init(call.args.fin, call.args.opcode,
                                   call.args.payload, call.args.rsv1,
                                   call.args.rsv2, call.args.rsv3)]
    /\ UNCHANGED <<protocol, ret, rx_log, steps, handler, server>>

\* data = frame.serialize(mask=mask)
Serialize ==
    /\ call.fn = "Frame"
    /\ call.out.exc = NoExc
    /\ call' = [fn |-> "serialize", frame |-> call.out.frame,
                mask |-> call.mask,
                data |-> serialize(call.out.frame, call.mask, call.mask_key)]
    /\ UNCHANGED <<protocol, ret, rx_log, steps, handler, server>>

\* parse_frame(data + rest)
ParseFrame(rest) ==
    /\ call.fn = "serialize"
    /\ call' = [fn |-> "parse_frame", frame |-> call.frame,
                mask |-> call.mask, data |-> call.data, rest |-> rest,
                out |-> parse_frame(call.data \o rest, NoneInt)]
    /\ UNCHANGED <<protocol, ret, rx_log, steps, handler, server>>

\* parse_frame(data[:cut], max_size=max_size)
ParsePrefix(cut, max_size) ==
    /\ cut \in Cuts(call.data)
    /\ call' = [fn |-> "parse_prefix", frame |-> call.frame,
                mask |-> call.mask, cut |-> cut, max_size |-> max_size,
                size |-> Len(call.data),
                out |-> parse_frame(Slice(call.data, 0, cut), max_size)]
    /\ UNCHANGED <<protocol, ret, rx_log, steps, handler, server>>

\* parse_frame of the bytes a peer sends that encodes the fields as
\* serialize does and keeps none of the rules of Frame
ParseWire ==
    /\ call.fn = "args"
    /\ call' = [fn |-> "parse_wire", args |-> call.args, mask |-> call.mask,
                out |-> parse_frame(serialize(call.args, call.mask,
                                              call.mask_key), NoneInt)]
    /\ UNCHANGED <<protocol, ret, rx_log, steps, handler, server>>

NextFrames ==
    \/ Construct
    \/ Serialize
    \/ \E rest \in RestArgs : ParseFrame(rest)
    \/ /\ call.fn = "serialize"
       /\ \E cut \in 0..(Len(call.data) - 1), max_size \in MaxSizeArgs :
             ParsePrefix(cut, max_size)
    \/ ParseWire
    \/ EncodeClose
    \/ DecodeEncoded
    \/ DecodeClose

SpecFrames == InitFrames /\ [][NextFrames]_vars

\* ------------------------------------------------ the handshake headers

\* str.lower() of an ASCII str
lower(s) == [i \in 1..Len(s) |-> IF s[i] >= 65 /\ s[i] <= 90 THEN s[i] + 32 ELSE s[i]]

IsSpace(c) == c \in {9, 10, 11, 12, 13, 32}

\* str.strip() of an ASCII str
strip_between(s, kept) ==
    IF kept = {} THEN <<>>
    ELSE SubSeq(s, CHOOSE i \in kept : \A j \in kept : i <= j,
                   CHOOSE i \in kept : \A j \in kept : i >= j)
strip(s) == strip_between(s, {i \in 1..Len(s) : ~IsSpace(s[i])})

\* str.split(","): the parts between the commas
RECURSIVE split(_)
split_at(s, commas) ==
    IF commas = {} THEN <<s>>
    ELSE <<SubSeq(s, 1, (CHOOSE i \in commas : \A j \in commas : i <= j) - 1)>>
         \o split(SubSeq(s, (CHOOSE i \in commas : \A j \in commas : i <= j) + 1,
                         Len(s)))
split(s) == split_at(s, {i \in 1..Len(s) : s[i] = 44})

\* the characters of the base64 alphabet: A-Z, a-z, 0-9, + and /
IsBase64(c) ==
    \/ c >= 65 /\ c <= 90
    \/ c >= 97 /\ c <= 122
    \/ c >= 48 /\ c <= 57
    \/ c \in {43, 47}

\* base64.b64decode(s, validate=True) of d data characters followed by pads:
\* the number of bytes decoded, or NoneInt where it raises binascii.Error
b64decode_padded(s, d) ==
    IF \E i \in 1..d : ~IsBase64(s[i]) THEN NoneInt
    ELSE IF d % 4 = 0 THEN (IF d = 0 /\ Len(s) > 0 THEN NoneInt ELSE 3 * (d \div 4))
    ELSE IF d % 4 = 2 /\ Len(s) = d + 2 THEN 3 * (d \div 4) + 1
    ELSE IF d % 4 = 3 /\ Len(s) = d + 1 THEN 3 * (d \div 4) + 2
    ELSE NoneInt
b64decode_len(s) ==
    b64decode_padded(s, IF \E i \in 1..Len(s) : s[i] = 61
                        THEN (CHOOSE i \in 1..Len(s) :
                                /\ s[i] = 61
                                /\ \A j \in 1..(i - 1) : s[j] # 61) - 1
                        ELSE Len(s))

\* _is_valid_key, _is_valid_accept
is_valid_key(key) == b64decode_len(key) = 16
is_valid_accept(accept) == b64decode_len(accept) = 20

\* Headers.get_all: the values added under the name, whatever its case
RECURSIVE get_all(_, _)
get_all(headers, name) ==
    IF headers = <<>> THEN <<>>
    ELSE (IF lower(Head(headers)[1]) = lower(name)
          THEN <<Head(headers)[2]>> ELSE <<>>)
         \o get_all(Tail(headers), name)

\* a variant that takes the first of several values
Headers_getitem_first(values) ==
    IF values = <<>> THEN [exc |-> Exc("KeyError"), value |-> NoneStr]
    ELSE [exc |-> NoExc, value |-> values[1]]

\* Headers.__getitem__: [exc, value]
Headers_getitem(values) ==
    IF values = <<>> THEN [exc |-> Exc("KeyError"), value |-> NoneStr]
    ELSE IF Len(values) > 1 THEN [exc |-> Exc("ValueError"), value |-> NoneStr]
    ELSE [exc |-> NoExc, value |-> values[1]]

\* require_header of validate_handshake: KeyError and ValueError become
\* HeaderError
require_checked(got) ==
    IF got.exc # NoExc THEN [exc |-> Exc("HeaderError"), value |-> NoneStr]
    ELSE got
require_header(headers, name) ==
    require_checked(Headers_getitem(get_all(headers, name)))

\* "Connection"
H_Connection ==
    <<67, 111, 110, 110, 101, 99, 116, 105, 111, 110>>
\* "connection"
H_connection ==
    <<99, 111, 110, 110, 101, 99, 116, 105, 111, 110>>
\* "Upgrade"
H_Upgrade ==
    <<85, 112, 103, 114, 97, 100, 101>>
\* "Sec-WebSocket-Version"
H_Version ==
    <<83, 101, 99, 45, 87, 101, 98, 83, 111, 99, 107, 101, 116, 45, 86, 101,
    114, 115, 105, 111, 110>>
\* "Sec-WebSocket-Key"
H_Key ==
    <<83, 101, 99, 45, 87, 101, 98, 83, 111, 99, 107, 101, 116, 45, 75, 101,
    121>>
\* "Sec-WebSocket-Accept"
H_Accept ==
    <<83, 101, 99, 45, 87, 101, 98, 83, 111, 99, 107, 101, 116, 45, 65, 99,
    99, 101, 112, 116>>
\* "upgrade"
V_upgrade ==
    <<117, 112, 103, 114, 97, 100, 101>>
\* "websocket"
V_websocket ==
    <<119, 101, 98, 115, 111, 99, 107, 101, 116>>
\* "13"
V_13 ==
    <<49, 51>>
\* "Upgrade"
V_Upgrade ==
    <<85, 112, 103, 114, 97, 100, 101>>
\* "keep-alive, Upgrade"
V_KeepAliveUpgrade ==
    <<107, 101, 101, 112, 45, 97, 108, 105, 118, 101, 44, 32, 85, 112, 103,
    114, 97, 100, 101>>
\* "keep-alive"
V_KeepAlive ==
    <<107, 101, 101, 112, 45, 97, 108, 105, 118, 101>>
\* "WebSocket"
V_WebSocket ==
    <<87, 101, 98, 83, 111, 99, 107, 101, 116>>
\* "h2c"
V_h2c ==
    <<104, 50, 99>>
\* "8"
V_8 ==
    <<56>>
\* "AAECAwQFBgcICQoLDA0ODw=="
V_Key16 ==
    <<65, 65, 69, 67, 65, 119, 81, 70, 66, 103, 99, 73, 67, 81, 111, 76, 68,
    65, 48, 79, 68, 119, 61, 61>>
\* "AAECAwQFBgcICQoLDA0ODxAREhM="
V_Key20 ==
    <<65, 65, 69, 67, 65, 119, 81, 70, 66, 103, 99, 73, 67, 81, 111, 76, 68,
    65, 48, 79, 68, 120, 65, 82, 69, 104, 77, 61>>
\* "AAECAwQFBgcICQoLDA0ODw="
V_KeyBadPadding ==
    <<65, 65, 69, 67, 65, 119, 81, 70, 66, 103, 99, 73, 67, 81, 111, 76, 68,
    65, 48, 79, 68, 119, 61>>
\* "not a key!"
V_KeyNotBase64 ==
    <<110, 111, 116, 32, 97, 32, 107, 101, 121, 33>>

\* the tokens of a Connection header
Tokens(connection) ==
    {lower(strip(split(connection)[i])) : i \in 1..Len(split(connection))}

\* validate_handshake, lines 338-347
validate_key(key, client_mode) ==
    IF key.exc # NoExc THEN key.exc
    ELSE IF client_mode /\ ~is_valid_accept(key.value) THEN Exc("SecurityError")
    ELSE IF ~client_mode /\ ~is_valid_key(key.value) THEN Exc("SecurityError")
    ELSE NoExc

\* validate_handshake, lines 333-336
validate_version(headers, client_mode, version) ==
    IF version.exc # NoExc THEN version.exc
    ELSE IF version.value # V_13 THEN Exc("HeaderError")
    ELSE validate_key(require_header(headers, IF client_mode THEN H_Accept
                                                             ELSE H_Key),
                      client_mode)

\* validate_handshake, lines 328-331
validate_upgrade(headers, client_mode, upgrade) ==
    IF upgrade.exc # NoExc THEN upgrade.exc
    ELSE IF lower(upgrade.value) # V_websocket THEN Exc("HeaderError")
    ELSE validate_version(headers, client_mode,
                          require_header(headers, H_Version))

\* validate_handshake, lines 323-326
validate_connection(headers, client_mode, connection) ==
    IF connection.exc # NoExc THEN connection.exc
    ELSE IF V_upgrade \notin Tokens(connection.value) THEN Exc("HeaderError")
    ELSE validate_upgrade(headers, client_mode,
                          require_header(headers, H_Upgrade))

\* validate_handshake(headers, client_mode=client_mode): the exception raised
validate_handshake(headers, client_mode) ==
    validate_connection(headers, client_mode,
                        require_header(headers, H_Connection))

\* the ways a header arrives: absent, once with each value, twice
Sent(names, values) ==
    {<<>>} \cup {<<<<name, value>>>> : name \in names, value \in values}
    \cup {<<<<name, value>>, <<name, value>>>> :
            name \in names, value \in {CHOOSE v \in values : TRUE}}
ConnectionArgs ==
    Sent({H_Connection, H_connection},
         {V_Upgrade, V_KeepAliveUpgrade, V_KeepAlive})
UpgradeArgs == Sent({H_Upgrade}, {V_websocket, V_WebSocket, V_h2c})
VersionArgs == Sent({H_Version}, {V_13, V_8})
KeyArgs ==
    Sent({H_Key}, {V_Key16, V_Key20, V_KeyBadPadding, V_KeyNotBase64, <<>>})
AcceptArgs == Sent({H_Accept}, {V_Key20, V_Key16})
\* the headers of a request or a response
HeaderArgs ==
    {c \o u \o v \o k \o a :
        c \in ConnectionArgs, u \in UpgradeArgs, v \in VersionArgs,
        k \in KeyArgs, a \in AcceptArgs}

InitHandshake ==
    /\ call \in {[fn |-> "headers", headers |-> headers,
                  client_mode |-> client_mode] :
                    headers \in HeaderArgs, client_mode \in BOOLEAN}
    /\ Constructed

\* validate_handshake(headers, client_mode=client_mode)
ValidateHandshake ==
    /\ call.fn = "headers"
    /\ call' = [fn |-> "validate_handshake", headers |-> call.headers,
                client_mode |-> call.client_mode,
                out |-> validate_handshake(call.headers, call.client_mode)]
    /\ UNCHANGED <<protocol, ret, rx_log, steps, handler, server>>

NextHandshake == ValidateHandshake

SpecHandshake == InitHandshake /\ [][NextHandshake]_vars

\* ------------------------------------------------------- reading the state

\* the frame a queued chunk of the outgoing queue holds
QueuedFrame(chunk) == parse_frame(chunk, NoneInt).frame

\* q2 is q with exactly one more chunk at its end
QueuedOne(q, q2) == Len(q2) = Len(q) + 1 /\ SubSeq(q2, 1, Len(q)) = q

\* the chunk is one CLOSE frame carrying (code, reason)
IsCloseChunk(chunk, code, reason) ==
    /\ QueuedFrame(chunk).opcode = CLOSE
    /\ QueuedFrame(chunk).fin
    /\ QueuedFrame(chunk).payload = PackBE(code, 2) \o Utf8Encode(reason)

\* the chunk is one CLOSE frame carrying the code
IsCloseChunkWithCode(chunk, code) ==
    /\ QueuedFrame(chunk).opcode = CLOSE
    /\ Len(QueuedFrame(chunk).payload) >= 2
    /\ SubSeq(QueuedFrame(chunk).payload, 1, 2) = PackBE(code, 2)

\* the step is a call of receive_data that dispatched exactly one frame
DispatchedOne == ret'.op = "receive_data" /\ Len(ret'.dispatched) = 1

\* the fragmented message that a log of dispatched frames leaves open, as the
\* peer sees it: its opcode, the payloads of its fragments in arrival order,
\* and whether a PING or PONG came between them
NoOpen == [type |-> NoneInt, parts |-> <<>>, interleaved |-> FALSE]

OpenAfter(open, e) ==
    IF e.exc # NoExc \/ e.frame.opcode = CLOSE THEN NoOpen
    ELSE IF e.frame.opcode \in {PING, PONG}
    THEN [open EXCEPT !.interleaved = (open.type # NoneInt)]
    ELSE IF e.frame.opcode = CONTINUATION
    THEN IF e.frame.fin \/ open.type = NoneInt THEN NoOpen
         ELSE [open EXCEPT !.parts = Append(@, e.frame.payload)]
    ELSE IF e.frame.fin THEN NoOpen
    ELSE [type |-> e.frame.opcode, parts |-> <<e.frame.payload>>,
          interleaved |-> FALSE]

RECURSIVE OpenMessage(_)
OpenMessage(log) ==
    IF log = <<>> THEN NoOpen
    ELSE OpenAfter(OpenMessage(SubSeq(log, 1, Len(log) - 1)), log[Len(log)])

\* a message of these bytes is within the limit
Fits(total, max_size) ==
    max_size = NoneInt \/ max_size = 0 \/ Len(total) <= max_size

\* the bytes are a message of that type
Decodes(type, total) == type = BINARY \/ Utf8Decode(total) # Invalid

Decoded(type, total) ==
    IF type = TEXT THEN Str(Utf8Decode(total)) ELSE Bytes(total)

FragmentationReset(p) ==
    /\ p.fragmented_message_type = NoneInt
    /\ p.fragmented_message_buffer = <<>>
    /\ p.fragmented_message_size = 0

\* ------------------------------------------------------------------ claims

AllowedTransitions ==
    {<<CONNECTING, OPEN>>, <<CONNECTING, CLOSED>>, <<OPEN, CLOSING>>,
     <<OPEN, CLOSED>>, <<CLOSING, CLOSED>>}

\* C1: transition(to) succeeds exactly for CONNECTING->OPEN, CONNECTING->CLOSED,
\* OPEN->CLOSING, OPEN->CLOSED and CLOSING->CLOSED; every other request raises
\* and leaves the state as it was; over every step of every operation the
\* state never moves backwards and CLOSED is never left.
C1_TransitionTable ==
    [][/\ ret'.op = "transition" =>
            IF <<protocol.state, ret'.code>> \in AllowedTransitions
            THEN ret'.exc = NoExc /\ protocol'.state = ret'.code
            ELSE ret'.exc.type = "ValueError" /\ protocol' = protocol
       /\ protocol'.state >= protocol.state
       /\ protocol.state = CLOSED => protocol'.state = CLOSED]_vars

\* a backward move, CLOSING -> OPEN, was asked for and refused
C1_Witness ==
    /\ ret.op = "transition" /\ ret.code = OPEN
    /\ ret.exc.type = "ValueError"
    /\ protocol.state = CLOSING

\* C2: close(code, reason) called in any state other than CLOSED completes
\* without error, queues a CLOSE frame if and only if none was sent before,
\* and leaves the state CLOSING when the peer's CLOSE has not been received
\* and CLOSED when it has; called in CLOSED it raises ConnectionClosed.
C2_CloseCompletes ==
    [][ret'.op = "close" =>
         IF protocol.state # CLOSED
         THEN /\ ret'.exc = NoExc
              /\ IF protocol.close_frame_sent
                 THEN protocol'.outgoing_queue = protocol.outgoing_queue
                 ELSE /\ QueuedOne(protocol.outgoing_queue, protocol'.outgoing_queue)
                      /\ IsCloseChunk(protocol'.outgoing_queue[Len(protocol'.outgoing_queue)],
                                      ret'.code, ret'.reason)
              /\ protocol'.state =
                     IF protocol.close_frame_received THEN CLOSED ELSE CLOSING
         ELSE ret'.exc.type = "ConnectionClosed"]_vars

\* the (code, reason) a CLOSE payload carries; the reason Invalid when it is
\* not UTF-8
CloseCodeOf(payload) ==
    IF Len(payload) < 2 THEN NORMAL ELSE payload[1] * 256 + payload[2]
CloseReasonOf(payload) ==
    IF Len(payload) < 2 THEN <<>> ELSE Utf8Decode(SubSeq(payload, 3, Len(payload)))
ValidClose(frame) ==
    /\ frame.opcode = CLOSE
    /\ 1000 <= CloseCodeOf(frame.payload) /\ CloseCodeOf(frame.payload) <= 4999
    /\ CloseReasonOf(frame.payload) # Invalid

C3Step(e, c, r) ==
    /\ e.exc = NoExc /\ ret'.exc = NoExc
    /\ protocol'.state = CLOSED
    /\ protocol'.close_code = c
    /\ protocol'.close_reason = r
    /\ IF protocol.close_frame_sent
       THEN protocol'.outgoing_queue = protocol.outgoing_queue
       ELSE /\ QueuedOne(protocol.outgoing_queue, protocol'.outgoing_queue)
            /\ IsCloseChunk(protocol'.outgoing_queue[Len(protocol'.outgoing_queue)],
                            c, r)

\* C3: a valid CLOSE frame with code c and reason r received in a state other
\* than CLOSED leaves the state CLOSED with close_code c and close_reason r;
\* exactly one CLOSE frame with the same (c, r) is queued if none had been
\* sent, and nothing is queued if one had; a CLOSE frame with no payload
\* counts as (1000, "").
C3_ReceivedClose ==
    [][(DispatchedOne /\ ValidClose(ret'.dispatched[1].frame)) =>
         C3Step(ret'.dispatched[1],
                CloseCodeOf(ret'.dispatched[1].frame.payload),
                CloseReasonOf(ret'.dispatched[1].frame.payload))]_vars

\* the peer's CLOSE (1001, "A") arrived first and was echoed
C3_Witness ==
    /\ ret.op = "receive_data"
    /\ ret.dispatched = <<[frame |-> Frame(TRUE, CLOSE, <<3, 233, 65>>), exc |-> NoExc]>>
    /\ protocol.state = CLOSED /\ protocol.close_code = GOING_AWAY
    /\ protocol.close_reason = <<65>>
    /\ Len(protocol.outgoing_queue) = 1

C4Step(open, e) ==
    /\ (e.frame.opcode \in DATA_FRAMES /\ ~e.frame.fin) =>
           protocol'.message_queue = protocol.message_queue
    /\ (/\ open.type # NoneInt
        /\ e.frame.opcode = CONTINUATION /\ e.frame.fin
        /\ Fits(Join(Append(open.parts, e.frame.payload)), protocol.max_size)
        /\ Decodes(open.type, Join(Append(open.parts, e.frame.payload)))) =>
           /\ e.exc = NoExc /\ ret'.exc = NoExc
           /\ protocol'.message_queue =
                  Append(protocol.message_queue,
                         Decoded(open.type, Join(Append(open.parts, e.frame.payload))))
           /\ FragmentationReset(protocol')

\* C4: a TEXT or BINARY frame with fin=false, any number of CONTINUATION
\* frames with fin=false and a CONTINUATION frame with fin=true, dispatched in
\* this order, queue exactly one message: the concatenation of the payloads
\* in arrival order (decoded as UTF-8 for TEXT), queued by the fin=true frame
\* and by no frame before it, after which the fragmentation state is reset.
\* The message is one that fits max_size and, for TEXT, is valid UTF-8.
C4_Reassembly ==
    [][DispatchedOne => C4Step(OpenMessage(rx_log), ret'.dispatched[1])]_vars

\* three fragments 195, 169, 65 became the text U+00E9 "A"
C4_Witness ==
    /\ Len(rx_log) = 3
    /\ rx_log[1].frame = Frame(FALSE, TEXT, <<195>>)
    /\ rx_log[2].frame = Frame(FALSE, CONTINUATION, <<169>>)
    /\ rx_log[3].frame = Frame(TRUE, CONTINUATION, <<65>>)
    /\ protocol.message_queue = <<Str(<<233, 65>>)>>
    /\ FragmentationReset(protocol)

C5Step(open, e) ==
    (/\ open.type # NoneInt
     /\ e.frame.opcode = CONTINUATION
     /\ ~Fits(Join(Append(open.parts, e.frame.payload)), protocol.max_size)) =>
        /\ ret'.exc.type = "ProtocolError"
        /\ protocol'.message_queue = protocol.message_queue
        /\ protocol'.state = CLOSED
        /\ protocol'.close_code = PROTOCOL_ERROR

\* C5: when the fragments of one message add up to more than max_size,
\* receive_data raises ProtocolError, no message is queued, and the state is
\* then CLOSED with close_code 1002.
C5_OversizeCloses ==
    [][DispatchedOne => C5Step(OpenMessage(rx_log), ret'.dispatched[1])]_vars

\* C6: in state CLOSED each of send_message, ping and receive_message (and
\* with them send_frame) raises ConnectionClosed carrying the recorded close
\* code and reason, and queues nothing.
C6_ClosedRejects ==
    [][(protocol.state = CLOSED
        /\ ret'.op \in {"send_message", "ping", "receive_message"}) =>
           /\ ret'.exc.type = "ConnectionClosed"
           /\ ret'.exc.code = protocol.close_code
           /\ ret'.exc.reason = protocol.close_reason
           /\ protocol'.outgoing_queue = protocol.outgoing_queue]_vars

C7Step(e) ==
    e.exc # NoExc =>
        /\ ret'.exc = e.exc
        /\ IF protocol.close_frame_sent
           THEN protocol'.outgoing_queue = protocol.outgoing_queue
           ELSE /\ QueuedOne(protocol.outgoing_queue, protocol'.outgoing_queue)
                /\ IsCloseChunkWithCode(
                       protocol'.outgoing_queue[Len(protocol'.outgoing_queue)],
                       PROTOCOL_ERROR)

\* C7: when the dispatch of a parsed frame raises, receive_data queues a CLOSE
\* frame with code 1002 unless a CLOSE frame was already sent, and the
\* exception that reaches the caller is the one the dispatch raised, in every
\* state other than CLOSED.
C7_DispatchError ==
    [][DispatchedOne => C7Step(ret'.dispatched[1])]_vars

\* the frames a chunk written to the socket holds
RECURSIVE FramesOf(_)
FramesAfter(parsed, chunk) ==
    IF parsed.exc # NoExc THEN <<>>
    ELSE <<parsed.frame>> \o FramesOf(SubSeq(chunk, parsed.consumed + 1, Len(chunk)))
FramesOf(chunk) ==
    IF chunk = <<>> THEN <<>> ELSE FramesAfter(parse_frame(chunk, NoneInt), chunk)

WroteClose(code) ==
    \E i \in 1..Len(handler.wire) :
        \E j \in 1..Len(FramesOf(handler.wire[i])) :
            /\ FramesOf(handler.wire[i])[j].opcode = CLOSE
            /\ Len(FramesOf(handler.wire[i])[j].payload) >= 2
            /\ SubSeq(FramesOf(handler.wire[i])[j].payload, 1, 2) = PackBE(code, 2)

\* C8: when the reader loop of an open connection has hit a protocol error
\* while processing received frames, the socket is not shut down before a
\* CLOSE frame with code 1002 has been written to it.
C8_CloseBeforeShutdown ==
    (handler.reader_error /\ handler.socket # "open") => WroteClose(PROTOCOL_ERROR)

\* C9: the dispatch of a CONTINUATION frame while no fragmented message is
\* open, and of a TEXT or BINARY frame while one is open, raises
\* ProtocolError and queues no message.
C9_UnexpectedFrames ==
    [][(/\ DispatchedOne
        /\ \/ /\ ret'.dispatched[1].frame.opcode = CONTINUATION
              /\ protocol.fragmented_message_type = NoneInt
           \/ /\ ret'.dispatched[1].frame.opcode \in {TEXT, BINARY}
              /\ protocol.fragmented_message_type # NoneInt) =>
           /\ ret'.dispatched[1].exc.type = "ProtocolError"
           /\ protocol'.message_queue = protocol.message_queue]_vars

\* a TEXT frame came while a BINARY message was open
C9_Witness ==
    /\ Len(rx_log) = 2
    /\ rx_log[1] = [frame |-> Frame(FALSE, BINARY, <<169, 66>>), exc |-> NoExc]
    /\ rx_log[2].frame = Frame(TRUE, TEXT, <<65>>)
    /\ rx_log[2].exc.type = "ProtocolError"
    /\ protocol.message_queue = <<>>

C10Step(open, e) ==
    /\ (open.type # NoneInt /\ e.frame.opcode \in {PING, PONG}) =>
           /\ e.exc = NoExc
           /\ protocol.fragmented_message_type = open.type
           /\ protocol.fragmented_message_buffer = open.parts
           /\ protocol'.fragmented_message_type = protocol.fragmented_message_type
           /\ protocol'.fragmented_message_buffer = protocol.fragmented_message_buffer
           /\ protocol'.fragmented_message_size = protocol.fragmented_message_size
           /\ protocol'.message_queue = protocol.message_queue
           /\ IF e.frame.opcode = PING
              THEN /\ QueuedOne(protocol.outgoing_queue, protocol'.outgoing_queue)
                   /\ QueuedFrame(protocol'.outgoing_queue[Len(protocol'.outgoing_queue)])
                          = Frame(TRUE, PONG, e.frame.payload)
              ELSE protocol'.outgoing_queue = protocol.outgoing_queue
    /\ (/\ open.interleaved
        /\ e.frame.opcode = CONTINUATION /\ e.frame.fin
        /\ Fits(Join(Append(open.parts, e.frame.payload)), protocol.max_size)
        /\ Decodes(open.type, Join(Append(open.parts, e.frame.payload)))) =>
           protocol'.message_queue =
               Append(protocol.message_queue,
                      Decoded(open.type, Join(Append(open.parts, e.frame.payload))))

\* C10: a PING or PONG frame dispatched while a fragmented message is open
\* leaves the fragmentation state (opcode, buffered parts, size) as it was
\* and queues no message; a PING queues its PONG in that same step; and the
\* message then completes as the concatenation of its own fragments.
C10_ControlInterleaved ==
    [][DispatchedOne => C10Step(OpenMessage(rx_log), ret'.dispatched[1])]_vars

\* a PING came between the two fragments of the text U+00E9 "B"
C10_Witness ==
    /\ Len(rx_log) = 3
    /\ rx_log[1].frame = Frame(FALSE, TEXT, <<195>>)
    /\ rx_log[2].frame = Frame(TRUE, PING, <<65>>)
    /\ rx_log[3].frame = Frame(TRUE, CONTINUATION, <<169, 66>>)
    /\ protocol.message_queue = <<Str(<<233, 66>>)>>
    /\ Len(protocol.outgoing_queue) = 1

\* the payloads of the PONG frames among chunks of the outgoing queue
PongOf(frame) == IF frame.opcode = PONG /\ frame.fin THEN <<frame.payload>> ELSE <<>>
RECURSIVE PongsIn(_)
PongsIn(chunks) ==
    IF chunks = <<>> THEN <<>>
    ELSE PongOf(QueuedFrame(Head(chunks))) \o PongsIn(Tail(chunks))

\* a CLOSE frame was dispatched without error: the state is CLOSED from then on
ClosedBy(e) == e.frame.opcode = CLOSE /\ e.exc = NoExc

\* the payloads of the PING frames of one call of receive_data that were
\* dispatched before the state was CLOSED
PingOf(e) == IF e.frame.opcode = PING THEN <<e.frame.payload>> ELSE <<>>
RECURSIVE PingsToAnswer(_)
PingsToAnswer(dispatched) ==
    IF dispatched = <<>> \/ ClosedBy(Head(dispatched)) THEN <<>>
    ELSE PingOf(Head(dispatched)) \o PingsToAnswer(Tail(dispatched))

\* C11: every PING frame dispatched while the state is not CLOSED queues
\* exactly one PONG frame with the ping's payload, the pongs in the order of
\* the pings; a PING dispatched in state CLOSED (after the CLOSE frame of the
\* same chunk) queues nothing and raises nothing.
C11_PingPong ==
    [][ret'.op = "receive_data" =>
         /\ Len(protocol'.outgoing_queue) >= Len(protocol.outgoing_queue)
         /\ SubSeq(protocol'.outgoing_queue, 1, Len(protocol.outgoing_queue))
                = protocol.outgoing_queue
         /\ PongsIn(SubSeq(protocol'.outgoing_queue,
                           Len(protocol.outgoing_queue) + 1,
                           Len(protocol'.outgoing_queue)))
                = PingsToAnswer(ret'.dispatched)
         /\ \A i \in 1..Len(ret'.dispatched) :
                /\ ret'.dispatched[i].frame.opcode = PING =>
                       ret'.dispatched[i].exc = NoExc
                /\ ClosedBy(ret'.dispatched[i]) => protocol'.state = CLOSED]_vars

\* pings "A" and "B" came in one chunk and were answered in that order; then
\* a ping that followed a close frame in its chunk was left unanswered
C11_Witness ==
    /\ Len(rx_log) = 4
    /\ rx_log[1].frame = Frame(TRUE, PING, <<65>>)
    /\ rx_log[2].frame = Frame(TRUE, PING, <<66>>)
    /\ rx_log[3].frame = Frame(TRUE, CLOSE, <<>>)
    /\ rx_log[4] = [frame |-> Frame(TRUE, PING, <<65>>), exc |-> NoExc]
    /\ Len(ret.dispatched) = 2
    /\ protocol.state = CLOSED
    /\ Len(protocol.outgoing_queue) = 3
    /\ PongsIn(protocol.outgoing_queue) = <<<<65>>, <<66>>>>

\* the mask bits of the frames a chunk written to the socket holds
RECURSIVE MaskBits(_)
MaskBitsAfter(parsed, chunk) ==
    IF parsed.exc # NoExc THEN <<>>
    ELSE <<BitAnd(chunk[2], 128) # 0>>
         \o MaskBits(SubSeq(chunk, parsed.consumed + 1, Len(chunk)))
MaskBits(chunk) ==
    IF Len(chunk) < 2 THEN <<>> ELSE MaskBitsAfter(parse_frame(chunk, NoneInt), chunk)

\* C12: every frame the server side writes to the socket (data frames of
\* send, pongs, close frames) is unmasked: its mask bit is 0.
C12_ServerFramesUnmasked ==
    \A i \in 1..Len(handler.wire) :
        handler.wire[i] # Response101 =>
            \A j \in 1..Len(MaskBits(handler.wire[i])) : ~MaskBits(handler.wire[i])[j]

\* the number of frames in a chunk of whole serialized frames, and -1 for
\* bytes that are anything else
RECURSIVE FrameCount(_)
FrameCountMore(rest) ==
    IF rest < 0 THEN -1 ELSE rest + 1
FrameCountAfter(parsed, chunk) ==
    IF parsed.exc # NoExc \/ parsed.consumed = 0 THEN -1
    ELSE FrameCountMore(FrameCount(SubSeq(chunk, parsed.consumed + 1, Len(chunk))))
FrameCount(chunk) ==
    IF chunk = <<>> THEN 0 ELSE FrameCountAfter(parse_frame(chunk, NoneInt), chunk)

\* by how many frames the data a thread has taken from the queue grew in a
\* step (a step that leaves it with bytes that are no whole frames counts
\* as a thousand)
Taken(before, after) ==
    IF after = before THEN 0
    ELSE IF FrameCount(after) < 0 THEN 1000
    ELSE FrameCount(after) - FrameCount(before)

\* the frames in the chunk a step has written, the handshake response apart
WrittenBy(before, after) ==
    IF after = before \/ after[Len(after)] = Response101 THEN 0
    ELSE FrameCount(after[Len(after)])

\* C13: for any interleaving of send, ping and close with the reader's flush,
\* what is written to the socket is a sequence of whole serialized frames
\* (no frame is split by another), and every queued frame is written at most
\* once: a step writes at most one chunk, made of whole frames that were
\* pending (in the queue or in the data a thread took from the queue), and
\* only a call of the protocol adds pending frames (it writes nothing but
\* the handshake response).
C13_WholeFramesOnce ==
    [][IF steps' # steps
       THEN /\ handler'.wire \in {handler.wire, Append(handler.wire, Response101)}
            /\ handler'.outgoing = handler.outgoing
       ELSE IF handler'.wire = handler.wire /\ handler'.outgoing = handler.outgoing
       THEN Len(protocol'.outgoing_queue) <= Len(protocol.outgoing_queue)
       ELSE /\ \/ handler'.wire = handler.wire
               \/ /\ handler'.wire = Append(handler.wire,
                                            handler'.wire[Len(handler'.wire)])
                  /\ \/ handler'.wire[Len(handler'.wire)] = Response101
                     \/ WrittenBy(handler.wire, handler'.wire) > 0
            /\ WrittenBy(handler.wire, handler'.wire)
                   + Taken(handler.outgoing.main, handler'.outgoing.main)
                   + Taken(handler.outgoing.reader, handler'.outgoing.reader)
                   + Len(protocol'.outgoing_queue) - Len(protocol.outgoing_queue)
                   <= 0]_vars

\* the user's frame and the reader's pong have both been written, each in a
\* chunk of its own
C13_Witness ==
    /\ Len(handler.wire) = 3
    /\ FramesOf(handler.wire[2]) = <<Frame(TRUE, PONG, <<65>>)>>
    /\ FramesOf(handler.wire[3]) = <<Frame(TRUE, TEXT, <<65>>)>>
    /\ handler.pc.main = "user"
    /\ handler.pc.reader = "loop"
    /\ protocol.outgoing_queue = <<>>

\* C14: when the handshake request is absent, cannot be parsed or fails
\* validation, nothing is written to the socket (no 101 response, no frame,
\* so no CLOSE frame), the state is never OPEN, the user handler is never
\* invoked, and the socket is closed when the connection thread ends.
C14_FailedHandshake ==
    handler.request \in {"none", "incomplete", "invalid_headers"} =>
        /\ handler.wire = <<>>
        /\ protocol.state # OPEN
        /\ ~handler.invoked
        /\ handler.pc.reader = "unstarted"
        /\ handler.pc.main = "done" => handler.socket = "closed"

\* a request with bad headers was read and the connection thread has ended
C14_Witness ==
    /\ handler.request = "invalid_headers"
    /\ handler.pc.main = "done"
    /\ handler.socket = "closed"
    /\ protocol.outgoing_queue # <<>>

\* C15: the handshake is bounded by a deadline: a connection whose client
\* does not deliver a complete request is aborted (socket closed, connection
\* thread finished, no upgrade response); no connection stays in CONNECTING
\* with its request unread for ever.
C15_HandshakeBounded ==
    <>(handler.request # "unread" \/ (handler.socket = "closed" /\ handler.pc.main = "done"))

C17_EofCloses ==
    (handler.eof /\ handler.pc.reader = "done") =>
        /\ protocol.state = CLOSED
        /\ protocol.close_code = PROTOCOL_ERROR

\* the messages the frames of one call of receive_data complete, in the order
\* of the frames (the chunks of this specification hold no fragments)
RECURSIVE CompletedIn(_)
CompletedIn(dispatched) ==
    IF dispatched = <<>> THEN <<>>
    ELSE (IF Head(dispatched).exc # NoExc
             \/ Head(dispatched).frame.opcode \notin {TEXT, BINARY}
          THEN <<>>
          ELSE <<Decoded(Head(dispatched).frame.opcode,
                         Head(dispatched).frame.payload)>>)
         \o CompletedIn(Tail(dispatched))

\* C18: receive_message hands the messages over in the order in which they
\* were completed, each once; with an empty queue and a timeout, in a state
\* other than CLOSED, it raises queue.Empty; in CLOSED it raises
\* ConnectionClosed, never the one for the other.
C18_ReceiveMessage ==
    [][/\ (steps' # steps /\ ret'.op = "receive_data") =>
              protocol'.message_queue =
                  protocol.message_queue \o CompletedIn(ret'.dispatched)
       /\ (steps' # steps /\ ret'.op = "receive_message") =>
              IF protocol.state = CLOSED
              THEN /\ ret'.exc.type = "ConnectionClosed"
                   /\ protocol'.message_queue = protocol.message_queue
              ELSE IF protocol.message_queue = <<>>
              THEN ret'.exc.type = "Empty"
              ELSE /\ ret'.exc = NoExc
                   /\ ret'.value = Head(protocol.message_queue)
                   /\ protocol'.message_queue = Tail(protocol.message_queue)
       /\ (steps' # steps /\ ret'.op \notin {"receive_data", "receive_message"}) =>
              protocol'.message_queue = protocol.message_queue]_vars

\* the connections that are active: their handler has been started and has
\* not ended
ActiveConnections == {c \in Clients : server.conn[c] \in {"running", "closed"}}

\* C19: the number of concurrently active connections never exceeds the
\* configured maximum (a connection that arrives at capacity is not added to
\* the active set and gets no handler), and the registry holds no connection
\* whose handler has ended.
C19_Capacity ==
    /\ Cardinality(ActiveConnections) <= MaxConnections
    /\ Cardinality(server.handlers) <= MaxConnections
    /\ server.handlers \subseteq ActiveConnections

\* C20: shutdown() of a running server stops accepting, closes every
\* connection active at that moment with code 1001, and only then releases
\* the listening socket; a shutdown() of a server that is not running
\* changes nothing.
C20_ShutdownOrder ==
    [][/\ server'.socket = "closed" =>
              /\ ~server'.running
              /\ \A c \in server'.active_at_shutdown :
                     \/ server'.conn[c] = "ended" /\ server'.close_code[c] = NoneInt
                     \/ server'.close_code[c] = GOING_AWAY
       /\ \A t \in ServerThreads :
              (/\ server.pc[t] = "shutdown_enter"
               /\ server'.pc[t] # "shutdown_enter"
               /\ ~server.running) =>
                  /\ server'.pc[t] = server.after[t]
                  /\ server' = [server EXCEPT !.pc[t] = server.after[t]]]_vars

\* C21: broadcast(message) makes exactly one send on every handler that was
\* in the registry when the call started, and none on any other; a send
\* that raises neither ends the broadcast nor keeps it from the handlers
\* that remain.
C21_Broadcast ==
    /\ \A c \in Clients :
           server.attempts[c] =
               IF c \in server.broadcast_set \ server.to_send THEN 1 ELSE 0
    /\ server.to_send \subseteq server.broadcast_set
    /\ server.failures \subseteq server.broadcast_set \ server.to_send
    /\ (server.broadcasts > 0 /\ server.pc.user # "broadcast") =>
           server.to_send = {}

\* a broadcast over two handlers has returned, and one of its sends raised
C21_Witness ==
    /\ server.broadcasts = 1
    /\ server.pc.user = "idle"
    /\ Cardinality(server.broadcast_set) = 2
    /\ Cardinality(server.failures) = 1
    /\ \A c \in server.broadcast_set : server.attempts[c] = 1

\* the step entered CLOSED with the code and reason of the close that ended
\* the connection: those given to transition or to close, those of the
\* CLOSE frame received, or 1002 and the text of the exception when the
\* dispatch of a received CLOSE frame raised
C22Entered ==
    \/ /\ ret'.op = "transition"
       /\ protocol'.close_code = NORMAL
       /\ protocol'.close_reason = <<>>
    \/ /\ ret'.op = "close"
       /\ protocol'.close_code = ret'.code
       /\ protocol'.close_reason = ret'.reason
    \/ /\ DispatchedOne
       /\ ret'.dispatched[1].frame.opcode = CLOSE
       /\ IF ret'.dispatched[1].exc = NoExc
          THEN /\ protocol'.close_code = CloseCodeOf(ret'.dispatched[1].frame.payload)
               /\ protocol'.close_reason = CloseReasonOf(ret'.dispatched[1].frame.payload)
          ELSE /\ protocol'.close_code = PROTOCOL_ERROR
               /\ protocol'.close_reason = str(ret'.dispatched[1].exc)

C23_RoundTrip ==
    call.fn = "parse_frame" =>
        /\ call.out.exc = NoExc
        /\ call.out.frame.fin = call.frame.fin
        /\ call.out.frame.opcode = call.frame.opcode
        /\ call.out.frame.payload = call.frame.payload
        /\ call.out.consumed = Len(call.data)

C23_Witness ==
    /\ call.fn = "parse_frame"
    /\ call.mask
    /\ Len(call.frame.payload) = ShortBoundary + 1
    /\ call.rest # <<>>
    /\ call.out.exc = NoExc
    /\ call.out.consumed = ShortBoundary + 9

\* the number of bytes after which the declared payload length can be read
LengthReadable(payload_length) ==
    IF payload_length <= ShortBoundary THEN 2
    ELSE IF payload_length <= LongBoundary THEN 4 ELSE 10

\* C24: parse_frame raises FrameError on every strict prefix of a serialized
\* valid frame whose declared length is within max_size, and PayloadError on
\* every prefix from which a declared length above max_size can be read,
\* whether or not the mask key and the payload have arrived.
C24_Prefix ==
    call.fn = "parse_prefix" =>
        IF call.max_size = NoneInt \/ Len(call.frame.payload) <= call.max_size
        THEN call.out.exc.type = "FrameError"
        ELSE call.cut >= LengthReadable(Len(call.frame.payload))
                => call.out.exc.type = "PayloadError"

C24_Witness ==
    /\ call.fn = "parse_prefix"
    /\ call.mask
    /\ call.max_size = ShortBoundary
    /\ Len(call.frame.payload) = ShortBoundary + 1
    /\ call.cut = 4
    /\ call.out.exc.type = "PayloadError"

\* the field values no Frame may have
InvalidFields(args) ==
    \/ args.opcode \notin Opcodes
    \/ args.opcode \in CONTROL_FRAMES /\ ~args.fin
    \/ args.opcode \in CONTROL_FRAMES /\ Len(args.payload) > 125
    \/ args.rsv1 \/ args.rsv2 \/ args.rsv3

C26_ClosePayload ==
    /\ call.fn = "encode_close_payload" =>
          IF /\ 1000 <= call.code /\ call.code <= 4999
             /\ Len(Utf8Encode(call.reason)) <= 123
          THEN call.out.exc = NoExc /\ Len(call.out.payload) <= 125
          ELSE call.out.exc.type = "ValueError"
    /\ call.fn = "decode_encoded" =>
          /\ call.out.exc = NoExc
          /\ call.out.code = call.code
          /\ call.out.reason = call.reason
    /\ (call.fn = "decode_close_payload" /\ call.payload = <<>>) =>
          /\ call.out.exc = NoExc
          /\ call.out.code = 1000
          /\ call.out.reason = <<>>

C26_Witness ==
    /\ call.fn = "decode_encoded"
    /\ call.code = 4999
    /\ Len(call.reason) = 32
    /\ Len(call.payload) = 125
    /\ call.out.reason = call.reason

\* the number of headers of that name, whatever its case
HeaderCount(headers, name) ==
    Cardinality({i \in 1..Len(headers) : lower(headers[i][1]) = lower(name)})
\* the value of the only header of that name
HeaderValue(headers, name) ==
    headers[CHOOSE i \in 1..Len(headers) :
                lower(headers[i][1]) = lower(name)][2]
Once(headers, name) == HeaderCount(headers, name) = 1
\* one Connection header with the token upgrade, one Upgrade header equal to
\* websocket whatever its case, one Sec-WebSocket-Version header equal to 13
HeadersRight(headers) ==
    /\ Once(headers, H_Connection)
    /\ \E i \in 1..Len(split(HeaderValue(headers, H_Connection))) :
          lower(strip(split(HeaderValue(headers, H_Connection))[i])) = V_upgrade
    /\ Once(headers, H_Upgrade)
    /\ lower(HeaderValue(headers, H_Upgrade)) = V_websocket
    /\ Once(headers, H_Version)
    /\ HeaderValue(headers, H_Version) = V_13

C27Outcome(headers, name, size, out) ==
    IF ~HeadersRight(headers) \/ ~Once(headers, name)
    THEN out.type = "HeaderError"
    ELSE IF b64decode_len(HeaderValue(headers, name)) # size
    THEN out.type = "SecurityError"
    ELSE out = NoExc

\* C27: validate_handshake accepts exactly the header sets with one
\* Connection header holding the token upgrade, one Upgrade header equal to
\* websocket, one Sec-WebSocket-Version header equal to 13 and one
\* Sec-WebSocket-Key decoding to 16 bytes (in client mode one
\* Sec-WebSocket-Accept decoding to 20 bytes); it raises HeaderError when one
\* of the headers is missing, repeated or wrong and SecurityError when the
\* key does not decode to that many bytes.
C27_Handshake ==
    call.fn = "validate_handshake" =>
        IF call.client_mode
        THEN C27Outcome(call.headers, H_Accept, 20, call.out)
        ELSE C27Outcome(call.headers, H_Key, 16, call.out)

C27_Witness ==
    /\ call.fn = "validate_handshake"
    /\ ~call.client_mode
    /\ call.out = NoExc
    /\ call.headers[1] = <<H_connection, V_KeepAliveUpgrade>>
    /\ call.headers[2] = <<H_Upgrade, V_WebSocket>>
    /\ Len(call.headers) = 4

\* bytes that are nothing, or the beginning of a frame that parse_frame
\* returns once more bytes have arrived (a header of 14 bytes at most, a
\* payload of max_size bytes at most)
Completable(buffer, max_size) ==
    \/ buffer = <<>>
    \/ /\ parse_frame(buffer, max_size).exc # NoExc
       /\ \E more \in 1..(14 + max_size) :
             parse_frame(buffer \o Zeros(more), max_size).exc = NoExc

\* C28: when receive_data returns without raising on a connection that is
\* not closed, the bytes left in the incoming buffer are an incomplete
\* prefix of a frame that further bytes can complete; a complete invalid
\* frame is never left at the head of the buffer.
C28_BufferCompletable ==
    (ret.op = "receive_data" /\ ret.exc = NoExc /\ protocol.state # CLOSED)
        => Completable(protocol.incoming_buffer, protocol.max_size)

\* the fields of the protocol that the send lock is to protect
LockedFields(p) ==
    <<p.close_frame_sent, p.close_frame_received, p.pending_pings,
      p.fragmented_message_type, p.fragmented_message_buffer,
      p.fragmented_message_size, p.incoming_buffer>>

\* the places of a thread that lie inside "with self._send_lock"
InSendLock(pc) == pc \in {"send_sendall", "close_sendall", "sendall"}

\* thread t takes the step
Acts(t) ==
    \/ handler'.pc[t] # handler.pc[t]
    \/ handler'.outgoing[t] # handler.outgoing[t]

\* C29: while the user handler runs, every step that writes the close
\* flags, the pending pings, the fragmentation state or the incoming buffer
\* of the protocol is taken by the reader thread or by a thread that holds
\* the send lock of the connection.
C29_WritesUnderLock ==
    [][(handler.pc.main = "user"
        /\ LockedFields(protocol') # LockedFields(protocol))
          => \/ Acts("reader")
             \/ \E t \in Threads : Acts(t) /\ InSendLock(handler.pc[t])]_vars

\* the pending pings after a step that has them as pending before
C30Pending(pending) ==
    IF ret'.op = "ping"
    THEN (IF ret'.exc = NoExc THEN pending \cup {ret'.data} ELSE pending)
    ELSE IF DispatchedOne /\ ret'.dispatched[1].frame.opcode = PONG
    THEN pending \ {ret'.dispatched[1].frame.payload}
    ELSE pending

\* C30: the pending pings are the payloads of the successful calls of ping
\* that no PONG has answered since: a successful ping(p) adds p, a PONG with
\* payload p removes p, a PONG with another payload changes nothing and
\* raises nothing, and no other operation changes the set.
C30_PendingPings ==
    [][/\ protocol'.pending_pings = C30Pending(protocol.pending_pings)
       /\ (DispatchedOne /\ ret'.dispatched[1].frame.opcode = PONG)
             => ret'.exc = NoExc]_vars

\* C31: the bytes that the transport delivers behind the handshake request,
\* in the same read, reach the protocol before anything delivered later: when
\* the reader waits for the next read, the frame they hold is the first frame
\* the protocol has dispatched.
C31_SurplusReachesProtocol ==
    (handler.surplus # <<>> /\ handler.pc.reader = "recv")
        => /\ Len(rx_log) >= 1
           /\ rx_log[1].frame = parse_frame(handler.surplus, NoneInt).frame

\* the place of the first CLOSE frame among the frames a call dispatched,
\* one past the last frame when there is none
FirstClose(dispatched) ==
    IF \E i \in 1..Len(dispatched) : dispatched[i].frame.opcode = CLOSE
    THEN CHOOSE i \in 1..Len(dispatched) :
            /\ dispatched[i].frame.opcode = CLOSE
            /\ \A j \in 1..(i - 1) : dispatched[j].frame.opcode # CLOSE
    ELSE Len(dispatched) + 1

\* the data frames among the first n frames a call dispatched
DataFramesAmong(dispatched, n) ==
    Cardinality({i \in 1..n : dispatched[i].frame.opcode \in DATA_FRAMES})

\* C32: no message is added to the message queue once the connection is
\* CLOSED: none by a call made in that state, and none for the data frames
\* that follow a CLOSE frame in the bytes of one call of receive_data.
C32_NoMessageAfterClosed ==
    [][/\ protocol.state = CLOSED
            => Len(protocol'.message_queue) <= Len(protocol.message_queue)
       /\ ret'.op = "receive_data"
            => Len(protocol'.message_queue) - Len(protocol.message_queue)
                  <= DataFramesAmong(ret'.dispatched,
                                     FirstClose(ret'.dispatched) - 1)]_vars

\* C33: a message that was received before the connection became CLOSED can
\* still be obtained afterwards: receive_message returns the messages of the
\* queue in order, whatever the state, and raises only when the queue is
\* empty.
C33_QueuedMessagesObtainable ==
    [][(ret'.op = "receive_message" /\ protocol.message_queue # <<>>)
          => /\ ret'.exc = NoExc
             /\ ret'.value = Head(protocol.message_queue)
             /\ protocol'.message_queue = Tail(protocol.message_queue)]_vars

\* the connection has ended: the state is CLOSED (a CLOSE frame was received
\* or close was called) or the reader thread has finished (the transport
\* has ended)
ConnectionEnded == protocol.state = CLOSED \/ handler.pc.reader = "done"

\* C34: a consumer that waits in recv() with no timeout is released once the
\* connection has ended; it does not wait for ever on a dead connection.
C34_BlockedConsumerReleased ==
    [](handler.pc.main = "recv" /\ ConnectionEnded
          => <>(handler.pc.main # "recv"))

\* C35: at most one CLOSE frame is ever put into the outgoing queue of a
\* connection, however close() in the handler thread interleaves with the
\* reader thread that processes the frames of the peer.
C35_OneCloseFrameQueued == handler.close_frames <= 1

\* a chunk written to the socket that holds frames (not the HTTP response)
IsFrameChunk(chunk) == chunk # Response101

\* the frames written to the socket so far, in the order of the writes
WireFrames == FramesOf(Join(SelectSeq(handler.wire, IsFrameChunk)))

\* C36: once this side's CLOSE frame has been written to the socket, no
\* further frame is written to it: a CLOSE frame on the wire is the last
\* frame on the wire, however the calls of the handler thread interleave
\* with the flush of the reader thread.
C36_NothingWrittenAfterClose ==
    \A i \in 1..Len(WireFrames) :
        WireFrames[i].opcode = CLOSE => i = Len(WireFrames)

\* ------------------------------------- a byte stream fed whole and in pieces

\* frames in a stream of the peer, at most
MaxSplitFrames == 3

\* max_size of the protocol that receives the streams, and the length of
\* the payload that takes the two-byte extended length
SplitMaxSize == 200
SplitLongLength == 126

\* the frames of the streams: the first and the last frame of a fragmented
\* text message, a binary message, an empty text message, a ping, a pong
SplitFrames ==
    {Frame(FALSE, TEXT, <<65>>), Frame(TRUE, CONTINUATION, <<66>>),
     Frame(TRUE, BINARY, <<66>>), Frame(TRUE, TEXT, <<>>),
     Frame(TRUE, PING, <<65>>), Frame(TRUE, PONG, <<65>>)}

SplitSequences == UNION {[1..n -> SplitFrames] : n \in 1..MaxSplitFrames}

SplitStream(frames) ==
    Join([i \in 1..Len(frames) |-> serialize(frames[i], TRUE, ClientKey)])

\* the byte streams: up to MaxSplitFrames frames, and one frame with a
\* two-byte extended length
SplitStreams ==
    {SplitStream(frames) : frames \in SplitSequences}
        \cup {serialize(Frame(TRUE, BINARY, Payload(SplitLongLength)), TRUE, ClientKey)}

\* the keys os.urandom hands out to the call that gets the whole stream and
\* to the calls that get the pieces
WholeKeys == [i \in 1..MaxSplitFrames |-> <<5, 6, 7, 8>>]
SplitKeys == [i \in 1..MaxSplitFrames |-> <<1, 2, 3, 4>>]

\* what the claim compares: the decoded messages, the queued outgoing frames
\* without their mask keys, the fragmentation state
Summary(p) ==
    [messages |-> p.message_queue,
     frames |-> [i \in 1..Len(p.outgoing_queue) |-> QueuedFrame(p.outgoing_queue[i])],
     type |-> p.fragmented_message_type,
     buffer |-> p.fragmented_message_buffer,
     size |-> p.fragmented_message_size]

Whole(r) == [exc |-> r.exc, summary |-> Summary(r.p)]

\* a protocol object and a stream of which nothing has been fed yet
InitSplit ==
    /\ handler = WebSocketHandler
    /\ server = WebSocketServer
    /\ protocol = WebSocketProtocol(SplitMaxSize)
    /\ ret = [op |-> "__init__", exc |-> NoExc, dispatched |-> <<>>,
              value |-> NoMessage, code |-> NoneInt, reason |-> NoneStr,
              data |-> <<>>]
    /\ rx_log = <<>>
    /\ steps = 0
    /\ call \in {[fn |-> "split", data |-> data, fed |-> 0, calls |-> 0,
                  raised |-> FALSE, whole_done |-> FALSE,
                  whole |-> Whole(R(WebSocketProtocol(SplitMaxSize), NoExc))] :
                     data \in SplitStreams}

\* receive_data(stream) on a protocol object in the state of this one: the
\* whole stream in a single call
ReceiveWhole ==
    /\ call.fn = "split"
    /\ protocol.state = OPEN
    /\ ~call.whole_done
    /\ call' = [call EXCEPT
                    !.whole_done = TRUE,
                    !.whole = Whole(receive_data(
                                  [protocol EXCEPT !.urandom = WholeKeys], call.data))]
    /\ UNCHANGED <<protocol, ret, rx_log, steps, handler, server>>

SplitReceived(r, n) ==
    /\ protocol' = [r.p EXCEPT !.urandom = <<>>]
    /\ rx_log' = rx_log \o r.dispatched
    /\ call' = [call EXCEPT !.fed = @ + n, !.calls = @ + 1,
                            !.raised = r.exc # NoExc]
    /\ UNCHANGED <<ret, steps, handler, server>>

\* receive_data(piece) with the next bytes of the stream, one byte or more
ReceiveSplit ==
    /\ call.fn = "split"
    /\ call.whole_done
    /\ ~call.raised
    /\ \E n \in 1..(Len(call.data) - call.fed) :
          SplitReceived(
              receive_data([protocol EXCEPT !.urandom = SplitKeys],
                           SubSeq(call.data, call.fed + 1, call.fed + n)),
              n)

NextSplit ==
    \/ \E to_state \in {OPEN} : Transition(to_state)
    \/ ReceiveWhole
    \/ ReceiveSplit

SpecSplit == InitSplit /\ [][NextSplit]_vars

\* C37: when a stream of valid TEXT, BINARY, CONTINUATION, PING and PONG
\* frames raises no error in a single call of receive_data, feeding it in
\* pieces cut at any byte boundaries raises no error either and, once the
\* last byte is fed, has decoded the same messages, queued the same
\* outgoing frames (mask keys apart) and left the same fragmentation state.
C37_SplitEquivalent ==
    (call.fn = "split" /\ call.whole_done /\ call.whole.exc = NoExc)
        => /\ ~call.raised
           /\ call.fed = Len(call.data) => Summary(protocol) = call.whole.summary

\* a fragmented message and a ping fed one byte per call
C37_Witness ==
    /\ call.fn = "split" /\ call.whole_done /\ call.whole.exc = NoExc
    /\ call.fed = Len(call.data)
    /\ call.calls = Len(call.data)
    /\ Len(protocol.message_queue) = 1
    /\ Len(protocol.outgoing_queue) = 1

\* the application has called shutdown(), the call has returned, and
\* serve_forever has left its loop and returned
ShutdownReturned ==
    /\ ~server.running
    /\ server.shutdowns >= 1
    /\ server.pc.user = "idle"
    /\ server.pc.accept = "done"

\* C38: once shutdown() has returned and the accept loop has exited, no
\* connection the server accepted is still running: a connection accepted
\* while shutdown ran was closed by shutdown or was never started.
C38_NoConnectionSurvivesShutdown ==
    ShutdownReturned => \A c \in Clients : server.conn[c] # "running"

\* C39: a call of send_message, ping, pong or close that raises leaves the
\* protocol as it was: the connection state, the close-sent flag, the set of
\* pending pings and the outgoing queue are unchanged.
C39_FailedCallChangesNothing ==
    [][(ret'.op \in {"send_message", "ping", "pong", "close"} /\ ret'.exc # NoExc)
          => /\ protocol'.state = protocol.state
             /\ protocol'.close_frame_sent = protocol.close_frame_sent
             /\ protocol'.pending_pings = protocol.pending_pings
             /\ protocol'.outgoing_queue = protocol.outgoing_queue]_vars

====
